---- MODULE Spec2Model ----
(***************************************************************************)
(* Habit success prediction core of UpCoach (services/ml/models):          *)
(* HabitSuccessPredictor (train / predict / explain / save / load) and the *)
(* artifact pair it persists, modelled as a state machine over the         *)
(* predictor object the caller holds and one artifact path.                *)
(*                                                                         *)
(* Numbers: probabilities and importances are integers in hundredths       *)
(* (70 is 0.70); split fractions are integers in percent (20 is 0.2).      *)
(***************************************************************************)
EXTENDS Integers, Sequences, FiniteSets, TLC

VARIABLES
    predictor,      \* the HabitSuccessPredictor object the caller holds, and its fields
    xgb_file,       \* the artifact "<path>.xgb"
    metadata_file,  \* the artifact "<path>_metadata.json"
    save_calls,     \* number of save_model calls that started writing
    saved,          \* the object as it was when the last completed save_model wrote it
    clock,          \* datetime.now(), advanced by each completed training run
    last,           \* the last call made, its arguments and what it returned or raised
    fe              \* the last call of the feature engineer or the dataset builder

vars == <<predictor, xgb_file, metadata_file, save_calls, saved, clock, last, fe>>

---------------------------------------------------------------------------
(* Bounds of the model *)

\* feature dictionaries offered to the predictor differ in a value variant 1..MaxVariant
MaxVariant == 2
\* predict_batch is called with lists of 0..MaxBatch dictionaries
MaxBatch == 2
\* prepare_training_dataset is called with histories of 0..MaxHistory habits
MaxHistory == 2
\* save_model calls that write are numbered 1..MaxSaves
MaxSaves == 2
\* completed training runs are stamped 1..MaxClock
MaxClock == 2

---------------------------------------------------------------------------
(* Dictionaries, lists *)

EmptyDict == [k \in {} |-> 0]

Range(s) == {s[i] : i \in 1..Len(s)}

\* dict.update: keys of b overwrite those of a
DictUpdate(a, b) ==
    [k \in (DOMAIN a) \cup (DOMAIN b) |-> IF k \in DOMAIN b THEN b[k] ELSE a[k]]

\* a float NaN, as pandas fills a cell no row supplies and as numpy returns for 0/0:
\* a number no feature value reaches
NaN == -1000000

RECURSIVE SumSeq(_)
SumSeq(s) == IF s = <<>> THEN 0 ELSE s[1] + SumSeq(Tail(s))

Abs(x) == IF x < 0 THEN -x ELSE x

---------------------------------------------------------------------------
(* HabitSuccessPredictor: construction *)

\* the classifier before any fit or load: XGBClassifier has no booster
NoBooster == [fitted |-> FALSE, params |-> "none", seed |-> 0, test_size |-> 0]

\* self.model = None
NoModel == [present |-> FALSE, params |-> "none", booster |-> NoBooster]

\* xgb.XGBClassifier(max_depth=6, learning_rate=0.1, ...): the tuned hyperparameters
TunedClassifier == [present |-> TRUE, params |-> "tuned", booster |-> NoBooster]

\* xgb.XGBClassifier(): the library's default hyperparameters
DefaultClassifier == [present |-> TRUE, params |-> "default", booster |-> NoBooster]

\* self.feature_names of a new model, in the declared order
FeatureNames ==
    << "streak_length", "check_in_consistency_score", "weekday_completion_rate",
       "weekend_completion_rate", "reminder_response_rate", "avg_check_in_hour",
       "check_in_time_variance", "days_since_creation", "total_check_ins",
       "completion_rate_7d", "completion_rate_30d", "mood_correlation",
       "sleep_quality_correlation", "has_accountability_partner",
       "partner_engagement_score", "habit_difficulty_rating",
       "habit_category_encoded", "time_of_day_encoded", "momentum_score",
       "recent_miss_count" >>

\* an object that does not exist (never constructed, or whose __init__ raised)
NoObject ==
    [alive |-> FALSE, state |-> "Absent", model |-> NoModel,
     feature_names |-> <<>>, model_metadata |-> EmptyDict]

\* the first three assignments of __init__
BlankObject ==
    [alive |-> TRUE, state |-> "Untrained", model |-> NoModel,
     feature_names |-> <<>>, model_metadata |-> EmptyDict]

_initialize_new_model(o) ==
    [o EXCEPT !.model = TunedClassifier, !.feature_names = FeatureNames]

---------------------------------------------------------------------------
(* The fitted classifier as the library presents it *)

\* XGBClassifier is fitted once fit or load_model gave it a booster
IsFitted(m) == m.present /\ m.booster.fitted

BoosterId(b) == 2 * b.seed + (IF b.params = "tuned" THEN 1 ELSE 0) + b.test_size

\* the trees applied to one row of the feature matrix: a deterministic function of
\* the booster and of the values in column order (a missing value takes its own branch)
RowScore(row) ==
    SumSeq([i \in 1..Len(row) |-> i * (IF row[i] = NaN THEN 7 ELSE row[i])])

PredictProba(b, row) == (37 * BoosterId(b) + RowScore(row)) % 101

\* model.feature_importances_: one score per column, fixed by the booster
FeatureImportances(b, n) == [i \in 1..n |-> (BoosterId(b) * i + 3 * i * i) % 11]

---------------------------------------------------------------------------
(* Column selection, as pandas does it *)

\* the columns of pd.DataFrame(list of dicts): every key some row supplies
Columns(dicts) == UNION {DOMAIN dicts[i] : i \in 1..Len(dicts)}

\* pd.DataFrame(dicts)[names] raises KeyError unless every name is a column
ColumnsPresent(dicts, names) == Range(names) \subseteq Columns(dicts)

\* one row of pd.DataFrame(dicts)[names]: the values in the order of names, NaN where
\* the row has no such key; keys outside names are not selected
SelectRow(d, names) ==
    [i \in 1..Len(names) |-> IF names[i] \in DOMAIN d THEN d[names[i]] ELSE NaN]

---------------------------------------------------------------------------
(* HabitSuccessPredictor: prediction *)

NotTrainedError == "ValueError: Model not trained or loaded"

Raised(err) == [outcome |-> err, value |-> <<>>]

Returned(v) == [outcome |-> "ok", value |-> v]

predict_batch_result(o, habits_features) ==
    IF ~o.model.present THEN Raised(NotTrainedError)
    ELSE IF ~ColumnsPresent(habits_features, o.feature_names) THEN Raised("KeyError")
    ELSE IF ~IsFitted(o.model) THEN Raised("NotFittedError")
    ELSE Returned([i \in 1..Len(habits_features) |->
                     PredictProba(o.model.booster,
                                  SelectRow(habits_features[i], o.feature_names))])

\* predict_success_probability filling a missing feature instead of raising
predict_success_probability_defaulting(o, habit_features) ==
    IF ~o.model.present THEN Raised(NotTrainedError)
    ELSE IF ~IsFitted(o.model) THEN Raised("NotFittedError")
    ELSE Returned(<<PredictProba(o.model.booster,
                                 SelectRow(habit_features, o.feature_names))>>)

\* predict_success_probability refusing a dictionary that carries undeclared keys
predict_success_probability_strict(o, habit_features) ==
    IF ~o.model.present THEN Raised(NotTrainedError)
    ELSE IF DOMAIN habit_features # Range(o.feature_names) THEN Raised("KeyError")
    ELSE IF ~IsFitted(o.model) THEN Raised("NotFittedError")
    ELSE Returned(<<PredictProba(o.model.booster,
                                 SelectRow(habit_features, o.feature_names))>>)

predict_success_probability_result(o, habit_features) ==
    IF ~o.model.present THEN Raised(NotTrainedError)
    ELSE IF ~ColumnsPresent(<<habit_features>>, o.feature_names) THEN Raised("KeyError")
    ELSE IF ~IsFitted(o.model) THEN Raised("NotFittedError")
    ELSE Returned(<<PredictProba(o.model.booster,
                                 SelectRow(habit_features, o.feature_names))>>)

\* the bands as the docstring words them: 'high_success' (>0.7)
get_risk_category_exclusive(success_probability) ==
    IF success_probability > 70 THEN "high_success"
    ELSE IF success_probability > 40 THEN "moderate_risk"
    ELSE "high_risk"

get_risk_category(success_probability) ==
    IF success_probability >= 70 THEN "high_success"
    ELSE IF success_probability >= 40 THEN "moderate_risk"
    ELSE "high_risk"

\* a list with its elements computed once
AsList(s) == s \o <<>>

\* dict(zip(self.feature_names, importance_scores))
_get_feature_importance(o) ==
    IF ~o.model.present THEN EmptyDict
    ELSE LET n      == Len(o.feature_names)
             scores == AsList(FeatureImportances(o.model.booster, n))
         IN  [k \in Range(o.feature_names) |->
                scores[CHOOSE i \in 1..n :
                         /\ o.feature_names[i] = k
                         /\ \A j \in (i + 1)..n : o.feature_names[j] # k]]

DictGet(d, k, default) == IF k \in DOMAIN d THEN d[k] ELSE default

\* the contribution entry of every declared feature, in declared order
Contributions(o, habit_features) ==
    LET importance == _get_feature_importance(o)
    IN  AsList([i \in 1..Len(o.feature_names) |->
           LET name == o.feature_names[i]
               v    == DictGet(habit_features, name, 0)
               imp  == DictGet(importance, name, 0)
           IN  [feature |-> name, value |-> v, importance |-> imp,
                contribution |-> v * imp]])

\* a sort on the signed contribution, largest first
SortBySignedContribution(cs) ==
    LET n    == Len(cs)
        key  == AsList([i \in 1..n |-> cs[i].contribution])
        rank == AsList([i \in 1..n |->
                   Cardinality({j \in 1..n : \/ key[j] > key[i]
                                             \/ key[j] = key[i] /\ j < i}) + 1])
    IN  [r \in 1..n |-> cs[CHOOSE i \in 1..n : rank[i] = r]]

\* list.sort(key=abs(contribution), reverse=True): stable, largest first
SortByAbsContribution(cs) ==
    LET n    == Len(cs)
        key  == AsList([i \in 1..n |-> Abs(cs[i].contribution)])
        rank == AsList([i \in 1..n |->
                   Cardinality({j \in 1..n : \/ key[j] > key[i]
                                             \/ key[j] = key[i] /\ j < i}) + 1])
    IN  [r \in 1..n |-> cs[CHOOSE i \in 1..n : rank[i] = r]]

\* s[:n] for n >= 0
Take(s, n) == IF n >= Len(s) THEN s ELSE SubSeq(s, 1, n)

NoExplanation ==
    [success_probability |-> 0, risk_category |-> "none", prediction |-> "none",
     top_contributing_features |-> <<>>, model_confidence |-> 0]

explain_prediction_result(o, habit_features, top_n) ==
    LET r == predict_success_probability_result(o, habit_features)
    IN  IF r.outcome # "ok"
        THEN [outcome |-> r.outcome, value |-> <<>>, explanation |-> NoExplanation]
        ELSE LET success_prob == r.value[1]
             IN  [outcome |-> "ok", value |-> r.value,
                  explanation |->
                    [success_probability |-> success_prob,
                     risk_category |-> get_risk_category(success_prob),
                     prediction |-> IF success_prob >= 50 THEN "maintained"
                                    ELSE "at_risk",
                     top_contributing_features |->
                        Take(SortByAbsContribution(Contributions(o, habit_features)),
                             top_n),
                     model_confidence |-> Abs(success_prob - 50) * 2]]

---------------------------------------------------------------------------
(* The two artifacts of one path *)

NoFile == [exists |-> FALSE, complete |-> FALSE, writer |-> 0, content |-> <<>>]

\* a file some save_model call (writer >= 1) or another program (writer 0) wrote in full
FullFile(w, c) == [exists |-> TRUE, complete |-> TRUE, writer |-> w, content |-> c]

\* a file whose writing was cut short: it exists, truncated
PartialFile(w, c) == [exists |-> TRUE, complete |-> FALSE, writer |-> w, content |-> c]

\* json.dump of a dict: its entries, in insertion order, as text
JsonDump(d, keys) == [i \in 1..Len(keys) |-> <<keys[i], d[keys[i]]>>]

\* json.load of a whole text: the dict of its entries (a later entry wins)
JsonLoad(text) ==
    [k \in {text[i][1] : i \in 1..Len(text)} |->
       text[CHOOSE i \in 1..Len(text) :
              /\ text[i][1] = k
              /\ \A j \in 1..Len(text) : text[j][1] = k => j <= i][2]]

\* where a save_model call may be cut short
SaveCuts == {"xgb_partial", "between", "metadata_partial"}

\* save_model up to the point `cut` ("none": to its end); n numbers the call
save_model_result(o, xf, mf, n, cut) ==
    IF ~o.model.present
    THEN [outcome |-> "ValueError: No model to save", xgb |-> xf, metadata |-> mf]
    ELSE IF ~IsFitted(o.model)
    THEN [outcome |-> "NotFittedError", xgb |-> xf, metadata |-> mf]
    ELSE LET metadata == [feature_names |-> o.feature_names,
                          metadata |-> o.model_metadata]
             text == JsonDump(metadata, <<"feature_names", "metadata">>)
         IN  CASE cut = "xgb_partial" ->
                    [outcome |-> "interrupted",
                     xgb |-> PartialFile(n, <<o.model.booster>>), metadata |-> mf]
               [] cut = "between" ->
                    [outcome |-> "interrupted",
                     xgb |-> FullFile(n, <<o.model.booster>>), metadata |-> mf]
               [] cut = "metadata_partial" ->
                    [outcome |-> "interrupted",
                     xgb |-> FullFile(n, <<o.model.booster>>),
                     metadata |-> PartialFile(n, text)]
               [] OTHER ->
                    [outcome |-> "ok",
                     xgb |-> FullFile(n, <<o.model.booster>>),
                     metadata |-> FullFile(n, text)]

\* XGBClassifier.load_model differs between the library builds the code runs on:
\* 1.x restores the hyperparameters the saving wrapper held (they travel in the model
\* file, and are those the booster was fitted with), 2.0 leaves the constructor
\* defaults of the new XGBClassifier()
XgboostBuilds == {"1.x", "2.0"}

\* the classifier after self.model.load_model(f"{path}.xgb") has read booster b
LoadedClassifier(b, build) ==
    [present |-> TRUE, params |-> IF build = "1.x" THEN b.params ELSE "default",
     booster |-> b]

\* load_model treating the metadata file as optional
load_model_optional_metadata(o, xf, mf, build) ==
    LET o1 == [o EXCEPT !.model = DefaultClassifier]
    IN  IF ~(xf.exists /\ xf.complete)
        THEN [outcome |-> "XGBoostError", object |-> o1]
        ELSE
    LET o2 == [o1 EXCEPT !.model = LoadedClassifier(xf.content[1], build)]
    IN  IF ~mf.exists
        THEN [outcome |-> "ok", object |-> [o2 EXCEPT !.state = "Loaded"]]
        ELSE IF ~mf.complete THEN [outcome |-> "JSONDecodeError", object |-> o2]
        ELSE
    LET metadata == JsonLoad(mf.content)
    IN  IF "feature_names" \notin DOMAIN metadata
        THEN [outcome |-> "KeyError", object |-> o2]
        ELSE
    LET o3 == [o2 EXCEPT !.feature_names = metadata["feature_names"]]
    IN  IF "metadata" \notin DOMAIN metadata
        THEN [outcome |-> "KeyError", object |-> o3]
        ELSE [outcome |-> "ok",
              object |-> [o3 EXCEPT !.model_metadata = metadata["metadata"],
                                    !.state = "Loaded"]]

\* load_model keeping the whole metadata document as model_metadata
load_model_whole_document(o, xf, mf, build) ==
    LET o1 == [o EXCEPT !.model = DefaultClassifier]
    IN  IF ~(xf.exists /\ xf.complete)
        THEN [outcome |-> "XGBoostError", object |-> o1]
        ELSE
    LET o2 == [o1 EXCEPT !.model = LoadedClassifier(xf.content[1], build)]
    IN  IF ~mf.exists THEN [outcome |-> "FileNotFoundError", object |-> o2]
        ELSE IF ~mf.complete THEN [outcome |-> "JSONDecodeError", object |-> o2]
        ELSE
    LET metadata == JsonLoad(mf.content)
    IN  IF "feature_names" \notin DOMAIN metadata
        THEN [outcome |-> "KeyError", object |-> o2]
        ELSE [outcome |-> "ok",
              object |-> [o2 EXCEPT !.feature_names = metadata["feature_names"],
                                    !.model_metadata = metadata,
                                    !.state = "Loaded"]]

\* load_model, statement by statement: the object as the call leaves it
load_model_result(o, xf, mf, build) ==
    LET o1 == [o EXCEPT !.model = DefaultClassifier]
    IN  IF ~(xf.exists /\ xf.complete)
        THEN [outcome |-> "XGBoostError", object |-> o1]
        ELSE
    LET o2 == [o1 EXCEPT !.model = LoadedClassifier(xf.content[1], build)]
    IN  IF ~mf.exists THEN [outcome |-> "FileNotFoundError", object |-> o2]
        ELSE IF ~mf.complete THEN [outcome |-> "JSONDecodeError", object |-> o2]
        ELSE
    LET metadata == JsonLoad(mf.content)
    IN  IF "feature_names" \notin DOMAIN metadata
        THEN [outcome |-> "KeyError", object |-> o2]
        ELSE
    LET o3 == [o2 EXCEPT !.feature_names = metadata["feature_names"]]
    IN  IF "metadata" \notin DOMAIN metadata
        THEN [outcome |-> "KeyError", object |-> o3]
        ELSE [outcome |-> "ok",
              object |-> [o3 EXCEPT !.model_metadata = metadata["metadata"],
                                    !.state = "Loaded"]]

---------------------------------------------------------------------------
(* HabitSuccessPredictor.train *)

FeatureNameSet == Range(FeatureNames)

\* training frames: pos rows of label 1, neg rows of label 0, and the feature columns
\* the frame carries (the label column is always there); seed names the frame
Datasets ==
    { [seed |-> 1, pos |-> 10, neg |-> 10, columns |-> FeatureNameSet],
      [seed |-> 2, pos |-> 12, neg |-> 8,  columns |-> FeatureNameSet],
      [seed |-> 3, pos |-> 18, neg |-> 2,  columns |-> FeatureNameSet],
      [seed |-> 4, pos |-> 10, neg |-> 10,
       columns |-> FeatureNameSet \ {"mood_correlation", "sleep_quality_correlation"}] }

\* the test fractions train is called with, in percent
TestSizes == {20}

\* frames train cannot stratify: no rows, rows of label 1 only, rows of label 0 only
DegenerateDatasets ==
    { [seed |-> 5, pos |-> 0,  neg |-> 0,  columns |-> FeatureNameSet],
      [seed |-> 6, pos |-> 20, neg |-> 0,  columns |-> FeatureNameSet],
      [seed |-> 7, pos |-> 0,  neg |-> 20, columns |-> FeatureNameSet] }

\* the frames of full columns train returns metrics for
AcceptedDatasets == {d \in Datasets : d.seed \in {1, 2}}

\* test fractions, in percent, the default and two that are no fraction below 1
AnyTestSizes == {20, 100, 150}

\* sklearn _approximate_mode for two classes: k draws spread over the class counts
\* <<c1, c0>> in proportion, the odd one to the larger remainder, either on a tie
ApproximateMode(c1, c0, k) ==
    LET n  == c1 + c0
        f1 == (c1 * k) \div n
        f0 == (c0 * k) \div n
        r1 == (c1 * k) % n
        r0 == (c0 * k) % n
    IN  IF k - f1 - f0 = 0 THEN {<<f1, f0>>}
        ELSE {<<f1 + 1, f0>> : x \in {y \in {1} : r1 >= r0}}
             \cup {<<f1, f0 + 1>> : x \in {y \in {1} : r0 >= r1}}

SplitError == [ok |-> FALSE, train |-> <<0, 0>>, test |-> <<0, 0>>]

\* the stratified split of a frame of pos/neg rows once test_size is accepted: the
\* set of splits it can return, or the error it raises
StratifiedSplit(pos, neg, pct) ==
    LET n         == pos + neg
        n_test    == (pct * n + 99) \div 100
        n_train   == n - n_test
        n_classes == (IF pos > 0 THEN 1 ELSE 0) + (IF neg > 0 THEN 1 ELSE 0)
        least     == IF pos = 0 THEN neg ELSE IF neg = 0 THEN pos
                     ELSE IF pos < neg THEN pos ELSE neg
    IN  IF n_train <= 0 THEN {SplitError}
        ELSE IF least < 2 THEN {SplitError}
        ELSE IF n_train < n_classes \/ n_test < n_classes THEN {SplitError}
        ELSE { [ok |-> TRUE, train |-> t,
                test |-> <<pos - t[1], neg - t[2]>>] :
               t \in ApproximateMode(pos, neg, n_train) }

\* a split that takes a fraction of 1 or more as "half"
train_test_split_clamping(pos, neg, pct) ==
    StratifiedSplit(pos, neg, IF pct >= 100 THEN 50 ELSE pct)

\* train_test_split(X, y, test_size=pct/100, random_state=42, stratify=y): a float
\* test_size outside (0, 1) is refused before anything is split
train_test_split(pos, neg, pct) ==
    IF pct <= 0 \/ pct >= 100 THEN {SplitError}
    ELSE StratifiedSplit(pos, neg, pct)

\* validation_split=0.1, the default train is always called with
ValidationSplit == 10

\* model.fit on a training partition with label counts <<pos, neg>>: the classifier
\* afterwards. A partition of label 1 alone is refused by some library versions
\* and fitted by others.
FitOutcomes(m, part, seed, pct) ==
    LET fitted == [m EXCEPT !.booster = [fitted |-> TRUE, params |-> m.params,
                                          seed |-> seed, test_size |-> pct]]
    IN  IF part[2] = 0 /\ part[1] > 0
        THEN {[ok |-> FALSE, model |-> m], [ok |-> TRUE, model |-> fitted]}
        ELSE {[ok |-> TRUE, model |-> fitted]}

NoMetrics == EmptyDict

\* roc_auc_score(y_test, y_pred_proba) on a test partition with label counts
\* <<pos, neg>>. With one class only in y_true the score is undefined: scikit-learn
\* before 1.6 raises ValueError, later builds warn and return not-a-number.
roc_auc_score(y_test) ==
    IF y_test[1] = 0 \/ y_test[2] = 0
    THEN {[err |-> TRUE, defined |-> FALSE], [err |-> FALSE, defined |-> FALSE]}
    ELSE {[err |-> FALSE, defined |-> TRUE]}

\* train, statement by statement: every way the call can end on frame d
train_results(o, d, pct, now) ==
    IF ~(Range(o.feature_names) \subseteq d.columns)
    THEN {[outcome |-> "KeyError", object |-> o, metrics |-> NoMetrics]}
    ELSE UNION {
      IF ~s1.ok
      THEN {[outcome |-> "ValueError", object |-> o, metrics |-> NoMetrics]}
      ELSE UNION {
        IF ~s2.ok
        THEN {[outcome |-> "ValueError", object |-> o, metrics |-> NoMetrics]}
        ELSE IF ~o.model.present
        THEN {[outcome |-> "AttributeError", object |-> o, metrics |-> NoMetrics]}
        ELSE UNION {
          IF ~f.ok
          THEN {[outcome |-> "ValueError", object |-> o, metrics |-> NoMetrics]}
          ELSE LET o1 == [o EXCEPT !.model = f.model]
               IN  UNION {
                 IF auc.err
                 THEN {[outcome |-> "ValueError", object |-> o1,
                        metrics |-> NoMetrics]}
                 ELSE LET metrics ==
                            [scores |-> BoosterId(f.model.booster),
                             roc_auc |-> IF auc.defined
                                         THEN BoosterId(f.model.booster) ELSE NaN,
                             training_samples |-> s2.train[1] + s2.train[2],
                             test_samples |-> s1.test[1] + s1.test[2],
                             positive_class_ratio |->
                                <<s2.train[1], s2.train[1] + s2.train[2]>>]
                      IN  {[outcome |-> "ok",
                            object |->
                              [o1 EXCEPT
                                 !.model_metadata =
                                    [trained_at |-> now, metrics |-> metrics,
                                     feature_importance |->
                                        _get_feature_importance(o1)],
                                 !.state = "Trained"],
                            metrics |-> metrics]}
                 : auc \in roc_auc_score(s1.test) }
          : f \in FitOutcomes(o.model, s2.train, d.seed, pct) }
        : s2 \in train_test_split(s1.train[1], s1.train[2], ValidationSplit) }
      : s1 \in train_test_split(d.pos, d.neg, pct) }

---------------------------------------------------------------------------
(* Feature engineering: time and numbers                                   *)
(* A timestamp is the number of minutes since a Monday 00:00, or a string  *)
(* datetime.fromisoformat rejects. Feature values are in thousandths       *)
(* (500 is 0.5), rounded down.                                             *)

Timestamp(day, hour, minute) == [valid |-> TRUE, t |-> (day * 24 + hour) * 60 + minute]

MalformedTimestamp == [valid |-> FALSE, t |-> 0]

\* timedelta.days of a difference given in minutes (rounds towards minus infinity)
Days(minutes) == minutes \div (24 * 60)

DateOf(ts) == ts.t \div (24 * 60)

HourOf(ts) == (ts.t % (24 * 60)) \div 60

MinuteOf(ts) == ts.t % 60

\* datetime.weekday(): Monday is 0
WeekdayOf(ts) == DateOf(ts) % 7

Min(a, b) == IF a < b THEN a ELSE b

Max(a, b) == IF a > b THEN a ELSE b

Count(s, P(_)) == Cardinality({i \in 1..Len(s) : P(s[i])})

AllValid(s) == \A i \in 1..Len(s) : s[i].valid

RECURSIVE SqrtBetween(_, _, _)
SqrtBetween(n, lo, hi) ==
    IF lo >= hi THEN lo
    ELSE LET mid == (lo + hi + 1) \div 2
         IN  IF mid * mid <= n THEN SqrtBetween(n, mid, hi)
             ELSE SqrtBetween(n, lo, mid - 1)

\* the square root, rounded down
Sqrt(n) == IF n <= 0 THEN 0 ELSE SqrtBetween(n, 0, Min(n, 46340))

\* 1000 * ln(k) for the counts a bounded history can show
LnMilli == <<0, 693, 1099, 1386, 1609, 1792>>

\* np.mean of a list of integers, in thousandths
MeanMilli(xs) == (1000 * SumSeq(xs)) \div Len(xs)

\* n * sum(x^2) - sum(x)^2: the population variance times n^2
VarianceTimesNSquared(xs) ==
    Len(xs) * SumSeq([i \in 1..Len(xs) |-> xs[i] * xs[i]]) - SumSeq(xs) * SumSeq(xs)

\* the result of one feature group: the dict it returns, or the ValueError it raises
Features(d) == [err |-> FALSE, d |-> d]

FeatureError == [err |-> TRUE, d |-> EmptyDict]

\* a Python None
None == "None"

---------------------------------------------------------------------------
(* FeatureEngineer: the feature groups *)

\* a temporal group that also reports a seven-day rate, the name of a momentum key
_temporal_features_with_rate(habit_data, now1, now2, now3) ==
    LET check_ins  == DictGet(habit_data, "check_ins", <<>>)
        created_at == habit_data["created_at"]
    IN  IF ~created_at.valid THEN FeatureError
        ELSE Features(
          [streak_length       |-> 1000 * DictGet(habit_data, "current_streak", 0),
           days_since_creation |-> 1000 * Days(now1 - created_at.t),
           total_check_ins     |-> 1000 * Len(check_ins),
           habit_age_weeks     |-> (1000 * Days(now2 - created_at.t)) \div 7,
           completion_rate_7d  |-> (1000 * Len(check_ins)) \div 7,
           check_ins_per_week  |->
              IF Days(now3 - created_at.t) <= 7 THEN 1000 * Len(check_ins)
              ELSE (7000 * Len(check_ins)) \div Days(now3 - created_at.t)])

\* now1, now2, now3: the three datetime.now() readings of the method, in minutes
_temporal_features(habit_data, now1, now2, now3) ==
    LET check_ins  == DictGet(habit_data, "check_ins", <<>>)
        created_at == habit_data["created_at"]
    IN  IF ~created_at.valid THEN FeatureError
        ELSE Features(
          [streak_length       |-> 1000 * DictGet(habit_data, "current_streak", 0),
           days_since_creation |-> 1000 * Days(now1 - created_at.t),
           total_check_ins     |-> 1000 * Len(check_ins),
           habit_age_weeks     |-> (1000 * Days(now2 - created_at.t)) \div 7,
           check_ins_per_week  |->
              IF Days(now3 - created_at.t) <= 7 THEN 1000 * Len(check_ins)
              ELSE (7000 * Len(check_ins)) \div Days(now3 - created_at.t)])

\* Counter(hours).most_common(1)[0][0]: the first hour to reach the largest count
MostCommonHour(hours) ==
    LET n      == Len(hours)
        cnt(h) == Cardinality({i \in 1..n : hours[i] = h})
        first  == CHOOSE i \in 1..n :
                    /\ \A j \in 1..n : cnt(hours[j]) <= cnt(hours[i])
                    /\ \A j \in 1..(i - 1) : cnt(hours[j]) < cnt(hours[i])
    IN  hours[first]

\* stats.entropy of the hour distribution: ln n - (1/n) * sum of c ln c
HourEntropy(hours) ==
    LET n      == Len(hours)
        cnt(h) == Cardinality({i \in 1..n : hours[i] = h})
        clnc   == SumSeq([i \in 1..n |->
                     \* each distinct hour counted once, at its first occurrence
                     IF \E j \in 1..(i - 1) : hours[j] = hours[i] THEN 0
                     ELSE cnt(hours[i]) * LnMilli[cnt(hours[i])]])
    IN  LnMilli[n] - clnc \div n

\* pattern features reading habit_data['check_ins'], which raises when the key is absent
_pattern_features_requiring_check_ins(habit_data) ==
    LET check_ins == DictGet(habit_data, "check_ins", <<>>)
        n         == Len(check_ins)
    IN  IF "check_ins" \notin DOMAIN habit_data THEN FeatureError
        ELSE IF n = 0
        THEN Features(
          [weekday_completion_rate |-> 0, weekend_completion_rate |-> 0,
           morning_check_in_rate |-> 0, evening_check_in_rate |-> 0,
           most_common_hour |-> 12000, hour_entropy |-> 0])
        ELSE IF ~AllValid(check_ins) THEN FeatureError
        ELSE LET hours == AsList([i \in 1..n |-> HourOf(check_ins[i])])
                 IsWeekday(c) == WeekdayOf(c) < 5
                 IsWeekend(c) == WeekdayOf(c) >= 5
                 IsMorning(c) == 5 <= HourOf(c) /\ HourOf(c) < 12
                 IsEvening(c) == 17 <= HourOf(c) /\ HourOf(c) < 22
             IN  Features(
               [weekday_completion_rate |->
                   (1000 * Count(check_ins, IsWeekday)) \div Max(1, n),
                weekend_completion_rate |->
                   (1000 * Count(check_ins, IsWeekend)) \div Max(1, n),
                morning_check_in_rate |-> (1000 * Count(check_ins, IsMorning)) \div n,
                evening_check_in_rate |-> (1000 * Count(check_ins, IsEvening)) \div n,
                most_common_hour |-> 1000 * MostCommonHour(hours),
                hour_entropy |-> HourEntropy(hours)])

_pattern_features(habit_data) ==
    LET check_ins == DictGet(habit_data, "check_ins", <<>>)
        n         == Len(check_ins)
    IN  IF n = 0
        THEN Features(
          [weekday_completion_rate |-> 0, weekend_completion_rate |-> 0,
           morning_check_in_rate |-> 0, evening_check_in_rate |-> 0,
           most_common_hour |-> 12000, hour_entropy |-> 0])
        ELSE IF ~AllValid(check_ins) THEN FeatureError
        ELSE LET hours == AsList([i \in 1..n |-> HourOf(check_ins[i])])
                 IsWeekday(c) == WeekdayOf(c) < 5
                 IsWeekend(c) == WeekdayOf(c) >= 5
                 IsMorning(c) == 5 <= HourOf(c) /\ HourOf(c) < 12
                 IsEvening(c) == 17 <= HourOf(c) /\ HourOf(c) < 22
             IN  Features(
               [weekday_completion_rate |->
                   (1000 * Count(check_ins, IsWeekday)) \div Max(1, n),
                weekend_completion_rate |->
                   (1000 * Count(check_ins, IsWeekend)) \div Max(1, n),
                morning_check_in_rate |-> (1000 * Count(check_ins, IsMorning)) \div n,
                evening_check_in_rate |-> (1000 * Count(check_ins, IsEvening)) \div n,
                most_common_hour |-> 1000 * MostCommonHour(hours),
                hour_entropy |-> HourEntropy(hours)])

\* consistency features that measure every habit against a daily target
_consistency_features_daily_target(habit_data) ==
    LET check_ins == DictGet(habit_data, "check_ins", <<>>)
        n         == Len(check_ins)
    IN  IF n < 2
        THEN Features(
          [check_in_consistency_score |-> 500, avg_check_in_hour |-> 12000,
           check_in_time_variance |-> 0, inter_checkin_mean_days |-> 0,
           inter_checkin_std_days |-> 0, regularity_score |-> 500])
        ELSE IF ~AllValid(check_ins) THEN FeatureError
        ELSE LET \* t.hour + t.minute/60.0, kept in minutes
                 minutes   == AsList([i \in 1..n |->
                                 60 * HourOf(check_ins[i]) + MinuteOf(check_ins[i])])
                 avg_hour  == (1000 * SumSeq(minutes)) \div (60 * n)
                 \* np.std: the population standard deviation, here in thousandths
                 \* of an hour
                 hour_std  == (100 * Sqrt((100 * VarianceTimesNSquared(minutes))
                                            \div (n * n))) \div 60
                 intervals == AsList([i \in 1..(n - 1) |->
                                 Days(check_ins[i + 1].t - check_ins[i].t)])
                 m         == n - 1
                 mean_interval == MeanMilli(intervals)
                 std_interval  ==
                    IF m > 1
                    THEN 10 * Sqrt((10000 * VarianceTimesNSquared(intervals))
                                     \div (m * m))
                    ELSE 0
                 expected_freq == 1
                 regularity ==
                    1000 - Min(1000, Abs(mean_interval - 1000 * expected_freq)
                                       \div Max(1, expected_freq))
             IN  Features(
               [check_in_consistency_score |-> 1000000 \div (1000 + hour_std),
                avg_check_in_hour |-> avg_hour,
                check_in_time_variance |-> hour_std,
                inter_checkin_mean_days |-> mean_interval,
                inter_checkin_std_days |-> std_interval,
                regularity_score |-> regularity])

\* consistency features that take the defaults for no check-in only
_consistency_features_of_one(habit_data) ==
    LET check_ins == DictGet(habit_data, "check_ins", <<>>)
        n         == Len(check_ins)
    IN  IF n < 1
        THEN Features(
          [check_in_consistency_score |-> 500, avg_check_in_hour |-> 12000,
           check_in_time_variance |-> 0, inter_checkin_mean_days |-> 0,
           inter_checkin_std_days |-> 0, regularity_score |-> 500])
        ELSE IF ~AllValid(check_ins) THEN FeatureError
        ELSE LET \* t.hour + t.minute/60.0, kept in minutes
                 minutes   == AsList([i \in 1..n |->
                                 60 * HourOf(check_ins[i]) + MinuteOf(check_ins[i])])
                 avg_hour  == (1000 * SumSeq(minutes)) \div (60 * n)
                 \* np.std: the population standard deviation, here in thousandths
                 \* of an hour
                 hour_std  == (100 * Sqrt((100 * VarianceTimesNSquared(minutes))
                                            \div (n * n))) \div 60
                 intervals == AsList([i \in 1..(n - 1) |->
                                 Days(check_ins[i + 1].t - check_ins[i].t)])
                 m         == n - 1
                 mean_interval == IF m = 0 THEN 0 ELSE MeanMilli(intervals)
                 std_interval  ==
                    IF m > 1
                    THEN 10 * Sqrt((10000 * VarianceTimesNSquared(intervals))
                                     \div (m * m))
                    ELSE 0
                 expected_freq == DictGet(habit_data, "target_frequency", 1)
                 regularity ==
                    1000 - Min(1000, Abs(mean_interval - 1000 * expected_freq)
                                       \div Max(1, expected_freq))
             IN  Features(
               [check_in_consistency_score |-> 1000000 \div (1000 + hour_std),
                avg_check_in_hour |-> avg_hour,
                check_in_time_variance |-> hour_std,
                inter_checkin_mean_days |-> mean_interval,
                inter_checkin_std_days |-> std_interval,
                regularity_score |-> regularity])

_consistency_features(habit_data) ==
    LET check_ins == DictGet(habit_data, "check_ins", <<>>)
        n         == Len(check_ins)
    IN  IF n < 2
        THEN Features(
          [check_in_consistency_score |-> 500, avg_check_in_hour |-> 12000,
           check_in_time_variance |-> 0, inter_checkin_mean_days |-> 0,
           inter_checkin_std_days |-> 0, regularity_score |-> 500])
        ELSE IF ~AllValid(check_ins) THEN FeatureError
        ELSE LET \* t.hour + t.minute/60.0, kept in minutes
                 minutes   == AsList([i \in 1..n |->
                                 60 * HourOf(check_ins[i]) + MinuteOf(check_ins[i])])
                 avg_hour  == (1000 * SumSeq(minutes)) \div (60 * n)
                 \* np.std: the population standard deviation, here in thousandths
                 \* of an hour
                 hour_std  == (100 * Sqrt((100 * VarianceTimesNSquared(minutes))
                                            \div (n * n))) \div 60
                 intervals == AsList([i \in 1..(n - 1) |->
                                 Days(check_ins[i + 1].t - check_ins[i].t)])
                 m         == n - 1
                 mean_interval == MeanMilli(intervals)
                 std_interval  ==
                    IF m > 1
                    THEN 10 * Sqrt((10000 * VarianceTimesNSquared(intervals))
                                     \div (m * m))
                    ELSE 0
                 expected_freq == DictGet(habit_data, "target_frequency", 1)
                 regularity ==
                    1000 - Min(1000, Abs(mean_interval - 1000 * expected_freq)
                                       \div Max(1, expected_freq))
             IN  Features(
               [check_in_consistency_score |-> 1000000 \div (1000 + hour_std),
                avg_check_in_hour |-> avg_hour,
                check_in_time_variance |-> hour_std,
                inter_checkin_mean_days |-> mean_interval,
                inter_checkin_std_days |-> std_interval,
                regularity_score |-> regularity])

\* np.polyfit(days_ago, [1, ..., 1], 1)[0]: a constant is fitted with slope 0. When
\* every x is the same c the fit is rank deficient and the least-norm solution has
\* slope 1/(2c); for c = 0 the scaled design matrix holds 0/0 and the result depends
\* on the LAPACK build: lapack = "raises" is LinAlgError, lapack = "nan" is not a number
LapackBuilds == {"raises", "nan"}

TrendSlope(days_ago, lapack) ==
    IF \E i, j \in 1..Len(days_ago) : days_ago[i] # days_ago[j]
    THEN [err |-> FALSE, value |-> 0]
    ELSE IF days_ago[1] = 0
    THEN [err |-> lapack = "raises", value |-> NaN]
    ELSE [err |-> FALSE, value |-> 1000 \div (2 * days_ago[1])]

_momentum_features(habit_data, now, lapack) ==
    LET check_ins == DictGet(habit_data, "check_ins", <<>>)
        n         == Len(check_ins)
    IN  IF ~AllValid(check_ins) THEN FeatureError
        ELSE LET age == AsList([i \in 1..n |-> Days(now - check_ins[i].t)])
                 Within7(a)  == a <= 7
                 Within30(a) == a <= 30
                 Previous7(a) == 7 < a /\ a <= 14
                 last_7  == Count(age, Within7)
                 last_30 == Count(age, Within30)
                 prev_7_count == Count(age, Previous7)
                 days_ago == SelectSeq(age, Within30)
                 trend    == IF last_30 >= 3 THEN TrendSlope(days_ago, lapack)
                             ELSE [err |-> FALSE, value |-> 0]
             IN  IF trend.err THEN FeatureError
                 ELSE Features(
               [completion_rate_7d  |-> (1000 * last_7) \div 7,
                completion_rate_30d |-> (1000 * last_30) \div 30,
                momentum_score      |-> (1000 * (last_7 - prev_7_count)) \div 7,
                recent_miss_count   |-> 1000 * (7 - last_7),
                trend_slope         |-> trend.value,
                acceleration        |-> (1000 * (30 * last_7 - 7 * last_30)) \div 210])

\* social features that count the listed interactions whether or not a partner is set
_social_features_without_partner_test(habit_data, now) ==
    LET has_partner == DictGet(habit_data, "accountability_partner_id", None) # None
        partner_check_ins == DictGet(habit_data, "partner_check_ins", <<>>)
        partner_messages  == DictGet(habit_data, "partner_messages", <<>>)
        interactions      == partner_check_ins \o partner_messages
        engaged           == interactions # <<>>
        Recent(p)         == Days(now - p.t) <= 7
        partner_engagement ==
            IF engaged THEN Min(1000, (1000 * Count(interactions, Recent)) \div 7)
            ELSE 0
        reminders == DictGet(habit_data, "reminder_sent", <<>>)
        Responded(r) == r
        response_rate ==
            IF reminders # <<>>
            THEN (1000 * Count(reminders, Responded)) \div Len(reminders)
            ELSE 500
        partner == IF has_partner THEN 1000 ELSE 0
    IN  IF engaged /\ ~AllValid(interactions) THEN FeatureError
        ELSE Features(
          [has_accountability_partner |-> partner,
           partner_engagement_score   |-> partner_engagement,
           reminder_response_rate     |-> response_rate,
           social_support_score |-> (partner + partner_engagement + response_rate) \div 3])

_social_features(habit_data, now) ==
    LET has_partner == DictGet(habit_data, "accountability_partner_id", None) # None
        partner_check_ins == DictGet(habit_data, "partner_check_ins", <<>>)
        partner_messages  == DictGet(habit_data, "partner_messages", <<>>)
        interactions      == partner_check_ins \o partner_messages
        engaged           == has_partner /\ interactions # <<>>
        Recent(p)         == Days(now - p.t) <= 7
        partner_engagement ==
            IF engaged THEN Min(1000, (1000 * Count(interactions, Recent)) \div 7)
            ELSE 0
        reminders == DictGet(habit_data, "reminder_sent", <<>>)
        Responded(r) == r
        response_rate ==
            IF reminders # <<>>
            THEN (1000 * Count(reminders, Responded)) \div Len(reminders)
            ELSE 500
        partner == IF has_partner THEN 1000 ELSE 0
    IN  IF engaged /\ ~AllValid(interactions) THEN FeatureError
        ELSE Features(
          [has_accountability_partner |-> partner,
           partner_engagement_score   |-> partner_engagement,
           reminder_response_rate     |-> response_rate,
           social_support_score |-> (partner + partner_engagement + response_rate) \div 3])

\* stats.pearsonr, in thousandths
PearsonMilli(xs, ys) ==
    LET n   == Len(xs)
        cov == n * SumSeq([i \in 1..n |-> xs[i] * ys[i]]) - SumSeq(xs) * SumSeq(ys)
        den == Sqrt(VarianceTimesNSquared(xs) * VarianceTimesNSquared(ys))
    IN  IF den = 0 THEN NaN ELSE (1000 * cov) \div den

\* a correlation over every date that has a log, checked in or not
_calculate_temporal_correlation_over_log_dates(check_ins, logs) ==
    IF ~AllValid(check_ins) \/ \E i \in 1..Len(logs) : ~logs[i].timestamp.valid
    THEN [err |-> TRUE, value |-> 0]
    ELSE LET check_in_dates == {DateOf(check_ins[i]) : i \in 1..Len(check_ins)}
             log_dates      == {DateOf(logs[i].timestamp) : i \in 1..Len(logs)}
             \* a later log of the same date replaces the earlier one
             log_dict(d)    ==
                logs[CHOOSE i \in 1..Len(logs) :
                       /\ DateOf(logs[i].timestamp) = d
                       /\ \A j \in (i + 1)..Len(logs) :
                            DateOf(logs[j].timestamp) # d].score
             common         == log_dates
             \* sorted(common): the k-th smallest date
             common_dates   ==
                AsList([k \in 1..Cardinality(common) |->
                   CHOOSE d \in common : Cardinality({e \in common : e < d}) = k - 1])
             check_in_vector ==
                AsList([k \in 1..Len(common_dates) |->
                   IF common_dates[k] \in check_in_dates THEN 1 ELSE 0])
             log_vector ==
                AsList([k \in 1..Len(common_dates) |-> log_dict(common_dates[k])])
         IN  IF Len(common_dates) < 3 THEN [err |-> FALSE, value |-> 0]
             ELSE IF Cardinality(Range(check_in_vector)) < 2
                     \/ Cardinality(Range(log_vector)) < 2
             THEN [err |-> FALSE, value |-> 0]
             ELSE LET corr == PearsonMilli(check_in_vector, log_vector)
                  IN  [err |-> FALSE, value |-> IF corr = NaN THEN 0 ELSE corr]

\* the value returned, or the ValueError of a malformed timestamp; a log is a
\* record [timestamp, score]
_calculate_temporal_correlation(check_ins, logs) ==
    IF ~AllValid(check_ins) \/ \E i \in 1..Len(logs) : ~logs[i].timestamp.valid
    THEN [err |-> TRUE, value |-> 0]
    ELSE LET check_in_dates == {DateOf(check_ins[i]) : i \in 1..Len(check_ins)}
             log_dates      == {DateOf(logs[i].timestamp) : i \in 1..Len(logs)}
             \* a later log of the same date replaces the earlier one
             log_dict(d)    ==
                logs[CHOOSE i \in 1..Len(logs) :
                       /\ DateOf(logs[i].timestamp) = d
                       /\ \A j \in (i + 1)..Len(logs) :
                            DateOf(logs[j].timestamp) # d].score
             common         == check_in_dates \cap log_dates
             \* sorted(common): the k-th smallest date
             common_dates   ==
                AsList([k \in 1..Cardinality(common) |->
                   CHOOSE d \in common : Cardinality({e \in common : e < d}) = k - 1])
             check_in_vector ==
                AsList([k \in 1..Len(common_dates) |->
                   IF common_dates[k] \in check_in_dates THEN 1 ELSE 0])
             log_vector ==
                AsList([k \in 1..Len(common_dates) |-> log_dict(common_dates[k])])
         IN  IF Len(common_dates) < 3 THEN [err |-> FALSE, value |-> 0]
             ELSE IF Cardinality(Range(check_in_vector)) < 2
                     \/ Cardinality(Range(log_vector)) < 2
             THEN [err |-> FALSE, value |-> 0]
             ELSE LET corr == PearsonMilli(check_in_vector, log_vector)
                  IN  [err |-> FALSE, value |-> IF corr = NaN THEN 0 ELSE corr]

_correlation_features(habit_data, user_data) ==
    LET check_ins  == DictGet(habit_data, "check_ins", <<>>)
        mood_logs  == DictGet(user_data, "mood_logs", <<>>)
        sleep_logs == DictGet(user_data, "sleep_logs", <<>>)
        mood  == IF check_ins # <<>> /\ mood_logs # <<>>
                 THEN _calculate_temporal_correlation(check_ins, mood_logs)
                 ELSE [err |-> FALSE, value |-> 0]
        sleep == IF check_ins # <<>> /\ sleep_logs # <<>>
                 THEN _calculate_temporal_correlation(check_ins, sleep_logs)
                 ELSE [err |-> FALSE, value |-> 0]
    IN  IF mood.err \/ sleep.err THEN FeatureError
        ELSE Features([mood_correlation |-> mood.value,
                       sleep_quality_correlation |-> sleep.value])

\* derived features that count a momentum of zero as declining
_derived_features_flagging_standstill(features) ==
    LET maturity ==
            IF DictGet(features, "days_since_creation", 0) > 0
            THEN Min(1000, features["days_since_creation"] \div 90)
            ELSE 0
        engagement ==
            (  4 * DictGet(features, "completion_rate_30d", 0)
             + 3 * DictGet(features, "consistency_score", 0)
             + 3 * DictGet(features, "social_support_score", 0)) \div 10
        high_variance      == DictGet(features, "check_in_time_variance", 0) > 4000
        declining_momentum == DictGet(features, "momentum_score", 0) <= 0
        low_recent_rate    == DictGet(features, "completion_rate_7d", 0) < 500
        risk_flags == (IF high_variance THEN 1 ELSE 0)
                      + (IF declining_momentum THEN 1 ELSE 0)
                      + (IF low_recent_rate THEN 1 ELSE 0)
    IN  Features(
          [habit_maturity |-> maturity,
           overall_engagement_score |-> engagement,
           risk_flag_count |-> 1000 * risk_flags,
           habit_category_encoded |-> DictGet(features, "habit_category_encoded", 0),
           time_of_day_encoded |-> DictGet(features, "time_of_day_encoded", 0),
           habit_difficulty_rating |->
              DictGet(features, "habit_difficulty_rating", 500)])

_derived_features(features) ==
    LET maturity ==
            IF DictGet(features, "days_since_creation", 0) > 0
            THEN Min(1000, features["days_since_creation"] \div 90)
            ELSE 0
        engagement ==
            (  4 * DictGet(features, "completion_rate_30d", 0)
             + 3 * DictGet(features, "consistency_score", 0)
             + 3 * DictGet(features, "social_support_score", 0)) \div 10
        high_variance      == DictGet(features, "check_in_time_variance", 0) > 4000
        declining_momentum == DictGet(features, "momentum_score", 0) < -100
        low_recent_rate    == DictGet(features, "completion_rate_7d", 0) < 500
        risk_flags == (IF high_variance THEN 1 ELSE 0)
                      + (IF declining_momentum THEN 1 ELSE 0)
                      + (IF low_recent_rate THEN 1 ELSE 0)
    IN  Features(
          [habit_maturity |-> maturity,
           overall_engagement_score |-> engagement,
           risk_flag_count |-> 1000 * risk_flags,
           habit_category_encoded |-> DictGet(features, "habit_category_encoded", 0),
           time_of_day_encoded |-> DictGet(features, "time_of_day_encoded", 0),
           habit_difficulty_rating |->
              DictGet(features, "habit_difficulty_rating", 500)])

\* an Optional[Dict] argument: None, or a dict
NoneDict == [is_none |-> TRUE, d |-> EmptyDict]

Dict(d) == [is_none |-> FALSE, d |-> d]

\* the truth value of an Optional[Dict]: false for None and for {}
Truthy(user_data) == ~user_data.is_none /\ DOMAIN user_data.d # {}

\* features.update(group): the dict so far with the group's keys written over it; a
\* group that raises ends the call
UpdateWith(acc, group) ==
    IF acc.err \/ group.err THEN FeatureError
    ELSE Features(DictUpdate(acc.d, group.d))

\* the dictionaries engineer_features passes to features.update, in order: the
\* five groups that always run, the correlation group when it runs, the derived one
FeatureGroups(habit_data, user_data, include_correlations, clk, lapack) ==
    LET always == << _temporal_features(habit_data, clk[1], clk[2], clk[3]),
                     _pattern_features(habit_data),
                     _consistency_features(habit_data),
                     _momentum_features(habit_data, clk[4], lapack),
                     _social_features(habit_data, clk[5]) >>
        read   == IF include_correlations /\ Truthy(user_data)
                  THEN always \o <<_correlation_features(habit_data, user_data.d)>>
                  ELSE always
        merged == [k \in UNION {DOMAIN read[i].d : i \in 1..Len(read)} |->
                     read[CHOOSE i \in 1..Len(read) :
                            /\ k \in DOMAIN read[i].d
                            /\ \A j \in (i + 1)..Len(read) :
                                  k \notin DOMAIN read[j].d].d[k]]
    IN  read \o <<_derived_features(merged)>>

\* engineer_features; clk lists the datetime.now() readings of the call in order:
\* three in _temporal_features, one in _momentum_features, one in _social_features
engineer_features_result(habit_data, user_data, include_correlations, clk, lapack) ==
    LET f1 == UpdateWith(Features(EmptyDict),
                         _temporal_features(habit_data, clk[1], clk[2], clk[3]))
        f2 == UpdateWith(f1, _pattern_features(habit_data))
        f3 == UpdateWith(f2, _consistency_features(habit_data))
        f4 == UpdateWith(f3, _momentum_features(habit_data, clk[4], lapack))
        f5 == UpdateWith(f4, _social_features(habit_data, clk[5]))
        f6 == IF include_correlations /\ Truthy(user_data)
              THEN UpdateWith(f5, _correlation_features(habit_data, user_data.d))
              ELSE f5
    IN  IF f6.err THEN FeatureError
        ELSE UpdateWith(f6, _derived_features(f6.d))

\* prepare_training_dataset: one engineer_features call per habit, in order, each
\* with its own five clock readings; the first call that raises ends the function.
\* The result is the list of records the DataFrame is built from.
RECURSIVE training_records(_, _, _, _)
training_records(habits_history, user_profiles, clks, lapack) ==
    IF habits_history = <<>> THEN [err |-> FALSE, rows |-> <<>>]
    ELSE LET habit     == Head(habits_history)
             user_id   == habit["user_id"]
             user_data == Dict(DictGet(user_profiles, user_id, EmptyDict))
             r         == engineer_features_result(habit, user_data, TRUE,
                                                   Head(clks), lapack)
             rest      == training_records(Tail(habits_history), user_profiles,
                                           Tail(clks), lapack)
             maintained == IF DictGet(habit, "is_active", FALSE)
                              \/ DictGet(habit, "completed", FALSE) THEN 1 ELSE 0
             row       == DictUpdate(r.d, [maintained |-> maintained,
                                           habit_id |-> habit["id"],
                                           user_id |-> user_id])
         IN  IF r.err \/ rest.err THEN [err |-> TRUE, rows |-> <<>>]
             ELSE [err |-> FALSE, rows |-> <<row>> \o rest.rows]

\* a dataset builder that keeps the maintained habits only
prepare_training_dataset_maintained_only(habits_history, user_profiles, clks, lapack) ==
    LET r == training_records(habits_history, user_profiles, clks, lapack)
    IN  [r EXCEPT !.rows = SelectSeq(r.rows, LAMBDA row : row["maintained"] = 1)]

prepare_training_dataset_result(habits_history, user_profiles, clks, lapack) ==
    training_records(habits_history, user_profiles, clks, lapack)

---------------------------------------------------------------------------
(* Inputs *)

Position(k) == CHOOSE i \in 1..Len(FeatureNames) : FeatureNames[i] = k

\* a dictionary holding exactly the declared features
CompleteFeatures(v) == [k \in FeatureNameSet |-> (Position(k) * v) % 4]

Restrict(d, keys) == [k \in keys |-> d[k]]

CorrelationKeys == {"mood_correlation", "sleep_quality_correlation"}

\* keys the feature engineer emits that the predictor does not declare
ExtraFeatures == [k \in {"habit_maturity", "risk_flag_count"} |-> 2]

\* the dictionaries callers pass: complete ones, one lacking the correlation keys,
\* one carrying extra keys, one doing both (an engineered vector without user context)
FeatureDicts ==
    {CompleteFeatures(v) : v \in 1..MaxVariant}
    \cup { Restrict(CompleteFeatures(1), FeatureNameSet \ CorrelationKeys),
           DictUpdate(CompleteFeatures(1), ExtraFeatures),
           DictUpdate(Restrict(CompleteFeatures(1), FeatureNameSet \ CorrelationKeys),
                      ExtraFeatures) }

\* the dictionaries batches are made of: two complete ones of different values and
\* one lacking keys
BatchDicts ==
    { CompleteFeatures(1), CompleteFeatures(MaxVariant),
      Restrict(CompleteFeatures(1), FeatureNameSet \ CorrelationKeys) }

Batches == UNION {[1..n -> BatchDicts] : n \in 0..MaxBatch}

\* a complete dictionary with a falling momentum and a negative mood correlation
NegativeFeatures ==
    DictUpdate(CompleteFeatures(1), [momentum_score |-> -3, mood_correlation |-> -2])

ExplainDicts ==
    { CompleteFeatures(1),
      Restrict(CompleteFeatures(1), FeatureNameSet \ CorrelationKeys) }

TopNs == {0, 3, 5}

\* the dictionaries explained: the two above and the one with negative values
SignedDicts == ExplainDicts \cup {NegativeFeatures}

\* top_n: none, fewer than the features, the default, more than the features
AnyTopNs == TopNs \cup {25}

\* the probabilities in [0, 1], in hundredths
Probabilities == 0..100

\* artifacts another program left at the path before this one starts
ExternalBooster == [fitted |-> TRUE, params |-> "tuned", seed |-> 9, test_size |-> 20]

ExternalXgb == FullFile(0, <<ExternalBooster>>)

ExternalMetadata ==
    FullFile(0, <<(<<"feature_names", FeatureNames>>),
                  (<<"metadata", [trained_at |-> 0]>>)>>)

\* a metadata file without a feature_names entry
ExternalMetadataNoNames == FullFile(0, <<(<<"metadata", [trained_at |-> 0]>>)>>)

InitialFiles ==
    { <<NoFile, NoFile>>, <<NoFile, ExternalMetadata>>,
      <<ExternalXgb, ExternalMetadataNoNames>>, <<ExternalXgb, ExternalMetadata>> }

\* the first datetime.now() reading of a call: a Monday, 09:30
Morning == Timestamp(42, 9, 30).t

\* a reading one minute before midnight of the same day
BeforeMidnight == Timestamp(42, 23, 59).t

\* the five readings of one engineer_features call: the clock stands still, or
\* midnight passes after the first reading
Clocks ==
    { <<Morning, Morning, Morning, Morning, Morning>>,
      <<BeforeMidnight, BeforeMidnight + 1, BeforeMidnight + 1,
        BeforeMidnight + 1, BeforeMidnight + 1>> }

\* the readings of the engineer_features calls of one prepare_training_dataset
\* call: the clock stands still
DatasetClocks == {<<Morning, Morning, Morning, Morning, Morning>>}

NewHabit ==
    [id |-> "h1", user_id |-> "u1", created_at |-> Timestamp(41, 8, 0),
     check_ins |-> <<>>, is_active |-> TRUE]

OneCheckIn ==
    [id |-> "h2", user_id |-> "u2", created_at |-> Timestamp(32, 0, 0),
     check_ins |-> <<Timestamp(40, 18, 15)>>, current_streak |-> 1]

DailyWithPartner ==
    [id |-> "h3", user_id |-> "u1", created_at |-> Timestamp(0, 0, 0),
     check_ins |-> <<Timestamp(39, 8, 0), Timestamp(40, 8, 30), Timestamp(41, 9, 0)>>,
     current_streak |-> 3, target_frequency |-> 1,
     accountability_partner_id |-> "u9",
     partner_check_ins |-> <<Timestamp(41, 20, 0)>>,
     partner_messages |-> <<Timestamp(20, 20, 0)>>,
     reminder_sent |-> <<TRUE, FALSE>>, completed |-> TRUE]

MalformedCheckIn ==
    [id |-> "h4", user_id |-> "u1", created_at |-> Timestamp(30, 12, 0),
     check_ins |-> <<Timestamp(40, 7, 0), MalformedTimestamp>>, is_active |-> TRUE]

MalformedPartnerCheckIn ==
    [id |-> "h5", user_id |-> "u2", created_at |-> Timestamp(10, 12, 0),
     check_ins |-> <<Timestamp(22, 6, 0), Timestamp(34, 21, 45)>>,
     target_frequency |-> 7,
     partner_check_ins |-> <<MalformedTimestamp>>, is_active |-> FALSE]

ThreeToday ==
    [id |-> "h6", user_id |-> "u1", created_at |-> Timestamp(28, 0, 0),
     check_ins |-> <<Timestamp(42, 7, 0), Timestamp(42, 8, 0), Timestamp(42, 9, 0)>>,
     current_streak |-> 1, is_active |-> TRUE]

Lapsing ==
    [id |-> "h7", user_id |-> "u1", created_at |-> Timestamp(1, 0, 0),
     check_ins |-> <<Timestamp(29, 5, 0), Timestamp(30, 23, 0), Timestamp(33, 14, 0),
                     Timestamp(39, 14, 0)>>,
     target_frequency |-> 2, accountability_partner_id |-> "u9"]

Finished ==
    [id |-> "h8", user_id |-> "u2", created_at |-> Timestamp(2, 6, 0),
     check_ins |-> <<>>, is_active |-> FALSE, completed |-> TRUE]

\* created three days ago, checked in twice since
ThreeDaysOld ==
    [id |-> "h9", user_id |-> "u1", created_at |-> Timestamp(39, 7, 0),
     check_ins |-> <<Timestamp(40, 7, 30), Timestamp(41, 19, 0)>>,
     current_streak |-> 2, target_frequency |-> 1, is_active |-> TRUE]

\* the partner left (no partner id), the partner's check-in of yesterday is still listed
FormerPartner ==
    [id |-> "h10", user_id |-> "u1", created_at |-> Timestamp(20, 9, 0),
     check_ins |-> <<Timestamp(41, 9, 0)>>,
     partner_check_ins |-> <<Timestamp(41, 20, 0)>>,
     reminder_sent |-> <<TRUE>>, is_active |-> TRUE]

\* a partner with eight interactions this week, the oldest seven and a half days old,
\* and one older
BusyPartner ==
    [id |-> "h11", user_id |-> "u1", created_at |-> Timestamp(10, 9, 0),
     check_ins |-> <<>>, accountability_partner_id |-> "u9",
     partner_check_ins |-> <<Timestamp(34, 21, 0), Timestamp(36, 8, 0),
                             Timestamp(37, 8, 0), Timestamp(38, 8, 0)>>,
     partner_messages |-> <<Timestamp(33, 8, 0), Timestamp(39, 8, 0),
                            Timestamp(40, 8, 0), Timestamp(41, 8, 0),
                            Timestamp(41, 9, 0)>>]

\* a check-in every second day at 07:00, as targeted
OnTarget ==
    [id |-> "h12", user_id |-> "u1", created_at |-> Timestamp(34, 7, 0),
     check_ins |-> <<Timestamp(35, 7, 0), Timestamp(37, 7, 0), Timestamp(39, 7, 0),
                     Timestamp(41, 7, 0)>>,
     current_streak |-> 4, target_frequency |-> 2, is_active |-> TRUE]

\* a record with no optional field at all
Untracked ==
    [id |-> "h13", user_id |-> "u2", created_at |-> Timestamp(12, 22, 0)]

\* a weekly habit with one check-in, late in the evening
WeeklyOnce ==
    [id |-> "h14", user_id |-> "u2", created_at |-> Timestamp(30, 10, 0),
     check_ins |-> <<Timestamp(38, 23, 45)>>, current_streak |-> 1,
     target_frequency |-> 7, is_active |-> TRUE]

Habits ==
    {NewHabit, OneCheckIn, DailyWithPartner, MalformedCheckIn,
     MalformedPartnerCheckIn, ThreeToday, Lapsing, ThreeDaysOld,
     FormerPartner, BusyPartner, OnTarget, Untracked,
     WeeklyOnce}

\* a mood or sleep log
Log(ts, score) == [timestamp |-> ts, score |-> score]

WithLogs ==
    [mood_logs  |-> <<Log(Timestamp(39, 21, 0), 3), Log(Timestamp(40, 21, 0), 4),
                      Log(Timestamp(41, 21, 0), 2)>>,
     sleep_logs |-> <<Log(Timestamp(33, 7, 0), 5), Log(Timestamp(39, 7, 0), 4)>>]

WithMalformedLog == [mood_logs |-> <<Log(MalformedTimestamp, 3)>>]

UserContexts == {NoneDict, Dict(EmptyDict), Dict(WithLogs), Dict(WithMalformedLog)}

\* user_profiles: u1 has a profile or no user has one
UserProfiles == {EmptyDict, [u \in {"u1"} |-> WithLogs]}

\* the habits a history is drawn from: one of each user, one that cannot be parsed,
\* and one that is completed and no longer active
HistoryHabits == {NewHabit, OneCheckIn, MalformedCheckIn, Finished}

Histories == UNION {[1..n -> HistoryHabits] : n \in 0..MaxHistory}

---------------------------------------------------------------------------
(* The model trainer *)

\* pd.DataFrame(training_records) as train reads it: the label counts and the
\* columns, which are the keys of all rows
TrainingFrame(rows, seed) ==
    [seed |-> seed,
     pos |-> Cardinality({i \in 1..Len(rows) : rows[i]["maintained"] = 1}),
     neg |-> Cardinality({i \in 1..Len(rows) : rows[i]["maintained"] # 1}),
     columns |-> UNION {DOMAIN rows[i] : i \in 1..Len(rows)}]

\* ModelTrainer.train_from_data, statement by statement. `assigned` tells whether
\* self.predictor = HabitSuccessPredictor() was reached.
train_from_data_result(habits_history, user_profiles, validation_split, seed, clks, lapack, now) ==
    LET training_df == prepare_training_dataset_result(habits_history,
                                                       user_profiles, clks, lapack)
    IN  IF training_df.err
        THEN {[outcome |-> "ValueError", assigned |-> FALSE, object |-> NoObject,
               metrics |-> NoMetrics]}
        ELSE IF training_df.rows = <<>>
        THEN {[outcome |-> "KeyError", assigned |-> FALSE, object |-> NoObject,
               metrics |-> NoMetrics]}
        ELSE {[outcome |-> r.outcome, assigned |-> TRUE, object |-> r.object,
               metrics |-> r.metrics] :
              r \in train_results(_initialize_new_model(BlankObject),
                                  TrainingFrame(training_df.rows, seed),
                                  validation_split, now)}

\* histories the trainer is given: none, one that cannot be parsed, fourteen
\* habits of both labels, three habits of one label
MixedHistory == [i \in 1..14 |-> IF i % 2 = 1 THEN NewHabit ELSE Lapsing]

TrainerHistories ==
    { [seed |-> 11, habits |-> <<>>],
      [seed |-> 12, habits |-> <<NewHabit, MalformedCheckIn>>],
      [seed |-> 13, habits |-> MixedHistory],
      [seed |-> 14, habits |-> <<NewHabit, NewHabit, NewHabit>>] }

\* validation_split as train_from_data passes it on: the default and 1.0
TrainerSplits == {20, 100}

---------------------------------------------------------------------------
(* The state machine *)

Call(op, features, top_n, seed, r, explanation) ==
    [op |-> op, features |-> features, top_n |-> top_n, dataset |-> seed,
     test_size |-> 0,
     outcome |-> r.outcome, value |-> r.value, explanation |-> explanation]

NoCall == Call("none", <<>>, 0, 0, Returned(<<>>), NoExplanation)

NeverSaved == [id |-> 0, object |-> NoObject]

\* the last call of the feature engineer or of the dataset builder
FeatureCall(op, habits, user_data, include_correlations, clks, r, rows) ==
    [op |-> op, habits |-> habits, user_data |-> user_data,
     include_correlations |-> include_correlations, clks |-> clks,
     err |-> r.err, features |-> r.d, rows |-> rows]

NoFeatureCall ==
    FeatureCall("none", <<>>, NoneDict, TRUE, <<>>, Features(EmptyDict), <<>>)

Init ==
    /\ predictor = NoObject
    /\ \E fs \in InitialFiles : xgb_file = fs[1] /\ metadata_file = fs[2]
    /\ save_calls = 0
    /\ saved = NeverSaved
    /\ clock = 0
    /\ last = NoCall
    /\ fe = NoFeatureCall

\* HabitSuccessPredictor(): a new object replaces the one held
HabitSuccessPredictor_new ==
    /\ predictor' = _initialize_new_model(BlankObject)
    /\ last' = Call("__init__", <<>>, 0, 0, Returned(<<>>), NoExplanation)
    /\ UNCHANGED <<xgb_file, metadata_file, save_calls, saved, clock, fe>>

\* HabitSuccessPredictor(model_path): __init__ loads; if load_model raises, so does
\* __init__ and the caller keeps the object it held
HabitSuccessPredictor_from_path ==
    \E build \in XgboostBuilds :
      LET r == load_model_result(BlankObject, xgb_file, metadata_file, build)
      IN  /\ predictor' = IF r.outcome = "ok" THEN r.object ELSE predictor
          /\ last' = Call("__init__(path)", <<>>, 0, 0, Raised(r.outcome),
                          NoExplanation)
          /\ UNCHANGED <<xgb_file, metadata_file, save_calls, saved, clock, fe>>

train(d, pct) ==
    /\ predictor.alive
    /\ clock < MaxClock
    /\ \E r \in train_results(predictor, d, pct, clock + 1) :
         /\ predictor' = r.object
         /\ clock' = IF r.outcome = "ok" THEN clock + 1 ELSE clock
         /\ last' = [Call("train", <<>>, 0, d.seed, Raised(r.outcome), NoExplanation)
                        EXCEPT !.test_size = pct, !.value = r.metrics]
    /\ UNCHANGED <<xgb_file, metadata_file, save_calls, saved, fe>>

predict_success_probability(habit_features) ==
    /\ predictor.alive
    /\ last' = Call("predict_success_probability", <<habit_features>>, 0, 0,
                    predict_success_probability_result(predictor, habit_features),
                    NoExplanation)
    /\ UNCHANGED <<predictor, xgb_file, metadata_file, save_calls, saved, clock, fe>>

predict_batch(habits_features) ==
    /\ predictor.alive
    /\ last' = Call("predict_batch", habits_features, 0, 0,
                    predict_batch_result(predictor, habits_features),
                    NoExplanation)
    /\ UNCHANGED <<predictor, xgb_file, metadata_file, save_calls, saved, clock, fe>>

explain_prediction(habit_features, top_n) ==
    /\ predictor.alive
    /\ LET r == explain_prediction_result(predictor, habit_features, top_n)
       IN  last' = Call("explain_prediction", <<habit_features>>, top_n, 0, r,
                        r.explanation)
    /\ UNCHANGED <<predictor, xgb_file, metadata_file, save_calls, saved, clock, fe>>

\* save_model running to its end
save_model ==
    /\ predictor.alive
    /\ save_calls < MaxSaves
    /\ LET r == save_model_result(predictor, xgb_file, metadata_file,
                                  save_calls + 1, "none")
       IN  /\ xgb_file' = r.xgb
           /\ metadata_file' = r.metadata
           /\ save_calls' = IF r.outcome = "ok" THEN save_calls + 1 ELSE save_calls
           /\ saved' = IF r.outcome = "ok"
                       THEN [id |-> save_calls + 1, object |-> predictor] ELSE saved
           /\ last' = Call("save_model", <<>>, 0, 0, Raised(r.outcome), NoExplanation)
    /\ UNCHANGED <<predictor, clock, fe>>

\* save_model cut short (the process is killed, or a write raises) at `cut`
save_model_interrupted(cut) ==
    /\ predictor.alive
    /\ save_calls < MaxSaves
    /\ IsFitted(predictor.model)
    /\ LET r == save_model_result(predictor, xgb_file, metadata_file,
                                  save_calls + 1, cut)
       IN  /\ xgb_file' = r.xgb
           /\ metadata_file' = r.metadata
           /\ save_calls' = save_calls + 1
           /\ last' = Call("save_model", <<>>, 0, 0, Raised(r.outcome), NoExplanation)
    /\ UNCHANGED <<predictor, saved, clock, fe>>

load_model ==
    /\ predictor.alive
    /\ \E build \in XgboostBuilds :
         LET r == load_model_result(predictor, xgb_file, metadata_file, build)
         IN  /\ predictor' = r.object
             /\ last' = Call("load_model", <<>>, 0, 0, Raised(r.outcome),
                             NoExplanation)
    /\ UNCHANGED <<xgb_file, metadata_file, save_calls, saved, clock, fe>>

\* The life cycle of the artifacts: construction, training on frames train accepts,
\* saving (to the end or cut short) and loading. The read-only calls (predict_*,
\* explain_prediction) leave every field and both files as they are.
Next ==
    \/ HabitSuccessPredictor_new
    \/ HabitSuccessPredictor_from_path
    \/ \E d \in AcceptedDatasets, pct \in TestSizes : train(d, pct)
    \/ save_model
    \/ \E cut \in SaveCuts : save_model_interrupted(cut)
    \/ load_model

Spec == Init /\ [][Next]_vars

\* Serving: construction, training and loading from the artifacts found at the path,
\* and the read-only calls on whatever object results.
NextServe ==
    \/ HabitSuccessPredictor_new
    \/ HabitSuccessPredictor_from_path
    \/ \E d \in Datasets, pct \in TestSizes : train(d, pct)
    \/ load_model
    \/ \E f \in FeatureDicts : predict_success_probability(f)
    \/ \E fs \in Batches : predict_batch(fs)
    \/ \E f \in ExplainDicts, n \in TopNs : explain_prediction(f, n)

SpecServe == Init /\ [][NextServe]_vars

\* Explaining: construction, loading and training, and explain_prediction on every
\* dictionary and top_n
NextExplain ==
    \/ HabitSuccessPredictor_new
    \/ HabitSuccessPredictor_from_path
    \/ \E d \in AcceptedDatasets, pct \in TestSizes : train(d, pct)
    \/ load_model
    \/ \E f \in SignedDicts, n \in AnyTopNs : explain_prediction(f, n)

SpecExplain == Init /\ [][NextExplain]_vars

\* Training: construction and loading, and train on every frame and test fraction
NextTrain ==
    \/ HabitSuccessPredictor_new
    \/ HabitSuccessPredictor_from_path
    \/ load_model
    \/ \E d \in Datasets \cup DegenerateDatasets, pct \in AnyTestSizes : train(d, pct)

SpecTrain == Init /\ [][NextTrain]_vars

\* get_risk_category(p): reads nothing of the object and changes nothing
get_risk_category_call(success_probability) ==
    /\ predictor.alive
    /\ last' = Call("get_risk_category", <<success_probability>>, 0, 0,
                    Returned(<<get_risk_category(success_probability)>>),
                    NoExplanation)
    /\ UNCHANGED <<predictor, xgb_file, metadata_file, save_calls, saved, clock, fe>>

\* Categorisation: a predictor is constructed and asked for the category of every
\* probability
NextRisk ==
    \/ HabitSuccessPredictor_new
    \/ \E p \in Probabilities : get_risk_category_call(p)

SpecRisk == Init /\ [][NextRisk]_vars

\* ModelTrainer.train_from_data(habits_history, user_profiles, validation_split);
\* `predictor` is the trainer's self.predictor
train_from_data(h, user_profiles, validation_split, clk, lapack) ==
    /\ clock < MaxClock
    /\ \E r \in train_from_data_result(h.habits, user_profiles, validation_split,
                                       h.seed, [i \in 1..Len(h.habits) |-> clk],
                                       lapack, clock + 1) :
         /\ predictor' = IF r.assigned THEN r.object ELSE predictor
         /\ clock' = IF r.outcome = "ok" THEN clock + 1 ELSE clock
         /\ last' = [Call("train_from_data", <<>>, 0, h.seed, Raised(r.outcome),
                          NoExplanation)
                        EXCEPT !.test_size = validation_split, !.value = r.metrics]
    /\ UNCHANGED <<xgb_file, metadata_file, save_calls, saved, fe>>

\* ModelTrainer.save_model(): refuses without a predictor, else saves it at the
\* path of the day
ModelTrainer_save_model ==
    \/ /\ ~predictor.alive
       /\ last' = Call("ModelTrainer.save_model", <<>>, 0, 0,
                       Raised("ValueError: No model to save"), NoExplanation)
       /\ UNCHANGED <<predictor, xgb_file, metadata_file, save_calls, saved, clock,
                      fe>>
    \/ save_model

\* The trainer: its two operations in any order
NextTrainer ==
    \/ \E h \in TrainerHistories, ps \in UserProfiles, split \in TrainerSplits,
          clk \in DatasetClocks, lapack \in LapackBuilds :
             train_from_data(h, ps, split, clk, lapack)
    \/ ModelTrainer_save_model

SpecTrainer == Init /\ [][NextTrainer]_vars

engineer_features(habit_data, user_data, include_correlations, clk, lapack) ==
    /\ fe' = FeatureCall("engineer_features", <<habit_data>>, user_data,
                         include_correlations, <<clk>>,
                         engineer_features_result(habit_data, user_data,
                                                  include_correlations, clk, lapack),
                         <<>>)
    /\ UNCHANGED <<predictor, xgb_file, metadata_file, save_calls, saved, clock, last>>

prepare_training_dataset(habits_history, user_profiles, clks, lapack) ==
    LET r == prepare_training_dataset_result(habits_history, user_profiles, clks,
                                             lapack)
    IN  /\ fe' = FeatureCall("prepare_training_dataset", habits_history,
                             Dict(user_profiles), TRUE, clks,
                             IF r.err THEN FeatureError ELSE Features(EmptyDict),
                             r.rows)
        /\ UNCHANGED <<predictor, xgb_file, metadata_file, save_calls, saved, clock,
                       last>>

\* The feature engineer and the dataset builder hold no state between calls and
\* touch neither the predictor nor the artifacts.
NextFE ==
    \/ \E h \in Habits, u \in UserContexts, inc \in BOOLEAN, clk \in Clocks,
          lapack \in LapackBuilds : engineer_features(h, u, inc, clk, lapack)
    \/ \E hs \in Histories, ps \in UserProfiles, clk \in DatasetClocks,
          lapack \in LapackBuilds :
             prepare_training_dataset(hs, ps, [i \in 1..Len(hs) |-> clk], lapack)

\* The feature engineer alone
NextEngineer ==
    \E h \in Habits, u \in UserContexts, inc \in BOOLEAN, clk \in Clocks,
       lapack \in LapackBuilds : engineer_features(h, u, inc, clk, lapack)

\* no artifact is at the path: neither call reads one
InitFE == Init /\ xgb_file = NoFile /\ metadata_file = NoFile

SpecFE == InitFE /\ [][NextFE]_vars

SpecEngineer == InitFE /\ [][NextEngineer]_vars

---------------------------------------------------------------------------
(* Properties of the predictor and its artifacts *)

ReadOps == {"predict_success_probability", "predict_batch", "explain_prediction"}

LoadOps == {"load_model", "__init__(path)"}

Complete(f, names) == Range(names) \subseteq DOMAIN f

\* C1: while neither train nor load_model has completed (state Untrained), every
\* predict_success_probability, predict_batch and explain_prediction call raises
\* 'Model not trained or loaded', and a probability is only ever returned by a
\* predictor that is Trained or Loaded.
C1_UntrainedCallsRaiseNotTrained ==
    last.op \in ReadOps =>
      /\ predictor.state = "Untrained" => last.outcome = NotTrainedError
      /\ last.outcome = "ok" => predictor.state \in {"Trained", "Loaded"}

\* C2: whenever both artifacts exist and were written by save_model calls, they
\* were written by the same call.
C2_ArtifactsFromSameSave ==
    (/\ xgb_file.exists /\ metadata_file.exists
     /\ xgb_file.writer >= 1 /\ metadata_file.writer >= 1)
    => xgb_file.writer = metadata_file.writer

\* C4: predict_batch returns nothing when some dictionary of the list lacks a
\* declared feature name.
C4_BatchFailsOnIncompleteRow ==
    (/\ last.op = "predict_batch"
     /\ \E i \in 1..Len(last.features) :
          ~Complete(last.features[i], predictor.feature_names))
    => last.outcome # "ok" /\ last.value = <<>>

\* C5: predict_success_probability raises, and returns no value, whenever a
\* declared feature name is absent from the dictionary it is given.
C5_PredictFailsOnMissingKey ==
    (/\ last.op = "predict_success_probability"
     /\ ~Complete(last.features[1], predictor.feature_names))
    => last.outcome \notin {"ok"} /\ last.value = <<>>

C5_Witness ==
    /\ last.op = "predict_success_probability"
    /\ predictor.state \in {"Trained", "Loaded"}
    /\ IsFitted(predictor.model)
    /\ ~Complete(last.features[1], predictor.feature_names)
    /\ last.outcome = "KeyError"

\* the metadata file is missing, or is a whole document without a feature_names entry
NoFeatureNamesOnDisk ==
    \/ ~metadata_file.exists
    \/ /\ metadata_file.complete
       /\ "feature_names" \notin DOMAIN JsonLoad(metadata_file.content)

\* C6: a load_model call that finds no feature-name list fails and leaves model,
\* feature_names and model_metadata as they were before the call.
C6_FailedLoadLeavesPredictorUnchanged ==
    [][ (load_model /\ NoFeatureNamesOnDisk)
        => /\ last'.outcome # "ok"
           /\ predictor'.model = predictor.model
           /\ predictor'.feature_names = predictor.feature_names
           /\ predictor'.model_metadata = predictor.model_metadata ]_vars

\* C7: a load (load_model, or construction from a path) made while exactly one of
\* the two artifacts exists raises, and does not make the predictor Loaded.
C7_SingleArtifactLoadFails ==
    [][ (/\ xgb_file.exists # metadata_file.exists
         /\ last'.op \in LoadOps)
        => /\ last'.outcome # "ok"
           /\ predictor'.state = "Loaded" => predictor.state = "Loaded" ]_vars

C7_Witness ==
    /\ last.op \in LoadOps
    /\ xgb_file.exists /\ xgb_file.complete /\ ~metadata_file.exists
    /\ last.outcome = "FileNotFoundError"

\* both artifacts on disk are those the last completed save_model call wrote
PairOfLastSave ==
    /\ saved.id >= 1
    /\ xgb_file.exists /\ xgb_file.complete /\ xgb_file.writer = saved.id
    /\ metadata_file.exists /\ metadata_file.complete
    /\ metadata_file.writer = saved.id

C9_BatchEqualsSingle ==
    (/\ last.op = "predict_batch"
     /\ IsFitted(predictor.model)
     /\ \A i \in 1..Len(last.features) :
          Complete(last.features[i], predictor.feature_names))
    => /\ last.outcome = "ok"
       /\ Len(last.value) = Len(last.features)
       /\ \A i \in 1..Len(last.features) :
            <<last.value[i]>>
              = predict_success_probability_result(predictor, last.features[i]).value

\* the same for the lists that hold at least one dictionary
C9_NonEmptyBatchEqualsSingle ==
    Len(last.features) >= 1 => C9_BatchEqualsSingle

---------------------------------------------------------------------------
(* Properties of the feature engineer *)

\* C3. Every dictionary returned by engineer_features, whatever the habit record
\* and the user context (absent and empty ones included), and every row built by
\* prepare_training_dataset, contains every name of the predictor's feature_names.
C3_EngineeredFeaturesCoverFeatureNames ==
    /\ (fe.op = "engineer_features" /\ ~fe.err) =>
          FeatureNameSet \subseteq DOMAIN fe.features
    /\ (fe.op = "prepare_training_dataset" /\ ~fe.err) =>
          \A i \in 1..Len(fe.rows) : FeatureNameSet \subseteq DOMAIN fe.rows[i]

\* With correlations asked for and a user context that is not empty, the declared
\* names are all present.
C3_NonEmptyContextCoversFeatureNames ==
    (fe.op = "engineer_features" /\ ~fe.err /\ fe.include_correlations
       /\ Truthy(fe.user_data)) =>
          FeatureNameSet \subseteq DOMAIN fe.features

---------------------------------------------------------------------------
(* Properties of the categories and of training *)

DatasetOf(seed) == CHOOSE d \in Datasets \cup DegenerateDatasets : d.seed = seed

\* C12: train raises, and returns no metrics, whenever its frame has no rows, or
\* rows of label 1 only, or rows of label 0 only.
C12_DegenerateDatasetFails ==
    (/\ last.op = "train"
     /\ \/ DatasetOf(last.dataset).pos = 0
        \/ DatasetOf(last.dataset).neg = 0)
    => last.outcome # "ok" /\ last.value = NoMetrics

\* the same for the frame without rows alone
C12_EmptyDatasetFails ==
    (/\ last.op = "train"
     /\ DatasetOf(last.dataset).pos = 0
     /\ DatasetOf(last.dataset).neg = 0)
    => last.outcome # "ok" /\ last.value = NoMetrics

FreshlyTrained(seed, pct, now) ==
    {r.object : r \in {t \in train_results(_initialize_new_model(BlankObject),
                                            DatasetOf(seed), pct, now) :
                         t.outcome = "ok"}}

\* C14: after any train call that succeeds, whatever the predictor was before (new,
\* trained on another frame, or loaded), its fitted model, stored metrics and stored
\* feature importances are those of a new predictor on which only this train ran.
C14_RetrainEqualsFreshTrain ==
    (last.op = "train" /\ last.outcome = "ok")
    => \E f \in FreshlyTrained(last.dataset, last.test_size, clock) :
         /\ predictor.model = f.model
         /\ predictor.model_metadata.metrics = f.model_metadata.metrics
         /\ predictor.model_metadata.feature_importance
              = f.model_metadata.feature_importance

\* the same for predictors whose classifier holds the hyperparameters of
\* _initialize_new_model: those never loaded, and those loaded by xgboost 1.x
C14_RetrainWithTunedClassifierEqualsFreshTrain ==
    (last.op = "train" /\ last.outcome = "ok" /\ predictor.model.params = "tuned")
    => \E f \in FreshlyTrained(last.dataset, last.test_size, clock) :
         /\ predictor.model = f.model
         /\ predictor.model_metadata.metrics = f.model_metadata.metrics
         /\ predictor.model_metadata.feature_importance
              = f.model_metadata.feature_importance

\* C15: whenever train_from_data returns metrics, the model it trained has been
\* saved: the trainer runs the dataset builder, train and save in that order.
C15_ReturnedMetricsArePersisted ==
    (last.op = "train_from_data" /\ last.outcome = "ok")
    => /\ saved.id > 0
       /\ saved.object = predictor
       /\ xgb_file.exists
       /\ xgb_file.content = <<predictor.model.booster>>

\* train_from_data writes no file, whether it returns or raises
C15_TrainFromDataPersistsNothing ==
    [][ last'.op = "train_from_data"
        => /\ xgb_file' = xgb_file
           /\ metadata_file' = metadata_file
           /\ saved' = saved ]_vars

---------------------------------------------------------------------------
(* Properties of the feature engineer and the dataset builder *)

\* C16: a prepare_training_dataset call that returns gives one row per habit of the
\* history, in the order of the history, duplicates and abandoned habits included;
\* each row has the habit's id and user id, and maintained = 1 exactly when
\* is_active or completed is true.
C16_OneRowPerHabitInOrder ==
    (fe.op = "prepare_training_dataset" /\ ~fe.err)
    => /\ Len(fe.rows) = Len(fe.habits)
       /\ \A i \in 1..Len(fe.habits) :
            /\ fe.rows[i]["habit_id"] = fe.habits[i]["id"]
            /\ fe.rows[i]["user_id"] = fe.habits[i]["user_id"]
            /\ fe.rows[i]["maintained"] \in {0, 1}
            /\ fe.rows[i]["maintained"] = 1
                 <=> \/ DictGet(fe.habits[i], "is_active", FALSE)
                     \/ DictGet(fe.habits[i], "completed", FALSE)

\* a history holding the same abandoned habit twice came back as two rows
C16_Witness ==
    /\ fe.op = "prepare_training_dataset"
    /\ ~fe.err
    /\ fe.habits = <<OneCheckIn, OneCheckIn>>
    /\ Len(fe.rows) = 2
    /\ fe.rows[1]["maintained"] = 0
    /\ fe.rows[2]["habit_id"] = "h2"

---------------------------------------------------------------------------
(* Properties of the explanation *)

\* C17: an explain_prediction call that returns gives the probability p that
\* predict_success_probability gives, the category get_risk_category(p), the
\* prediction 'maintained' exactly when p >= 0.5 and 'at_risk' otherwise, and a
\* list of min(top_n, number of feature names) entries, each of a different
\* declared feature with contribution value x importance, in non-increasing
\* order of the absolute contribution.
C17_ExplanationShape ==
    (last.op = "explain_prediction" /\ last.outcome = "ok")
    => LET e   == last.explanation
           top == e.top_contributing_features
           p   == predict_success_probability_result(predictor,
                                                     last.features[1]).value[1]
           importance == _get_feature_importance(predictor)
       IN  /\ e.success_probability = p
           /\ e.risk_category = get_risk_category(p)
           /\ e.prediction = IF p >= 50 THEN "maintained" ELSE "at_risk"
           /\ Len(top) = Min(last.top_n, Len(predictor.feature_names))
           /\ \A i \in 1..Len(top) :
                /\ top[i].feature \in Range(predictor.feature_names)
                /\ top[i].value = last.features[1][top[i].feature]
                /\ top[i].importance = importance[top[i].feature]
                /\ top[i].contribution = top[i].value * top[i].importance
           /\ \A i, j \in 1..Len(top) :
                /\ i < j => Abs(top[i].contribution) >= Abs(top[j].contribution)
                /\ i # j => top[i].feature # top[j].feature
           /\ \A i \in 1..Len(top) :
                \A k \in Range(predictor.feature_names) :
                   (\A j \in 1..Len(top) : top[j].feature # k)
                   => Abs(last.features[1][k] * importance[k])
                        <= Abs(top[i].contribution)

\* an explanation of three entries led by a negative contribution, and one where
\* top_n exceeded the number of features
C17_Witness ==
    /\ last.op = "explain_prediction"
    /\ last.outcome = "ok"
    /\ last.top_n = 3
    /\ Len(last.explanation.top_contributing_features) = 3
    /\ last.explanation.top_contributing_features[1].contribution < 0

C17_WitnessAllFeatures ==
    /\ last.op = "explain_prediction"
    /\ last.outcome = "ok"
    /\ last.top_n = 25
    /\ Len(last.explanation.top_contributing_features) = 20

\* C18: in every engineered vector overall_engagement_score is
\* 0.4 x completion_rate_30d + 0.3 x check_in_consistency_score (the consistency
\* score of the third group) + 0.3 x social_support_score.
C18_EngagementWeights ==
    (fe.op = "engineer_features" /\ ~fe.err)
    => fe.features["overall_engagement_score"]
         = (  4 * fe.features["completion_rate_30d"]
            + 3 * fe.features["check_in_consistency_score"]
            + 3 * fe.features["social_support_score"]) \div 10

\* what the vectors hold: the two outer terms, the consistency term being 0
C18_EngagementWithoutConsistency ==
    (fe.op = "engineer_features" /\ ~fe.err)
    => /\ "consistency_score" \notin DOMAIN fe.features
       /\ fe.features["check_in_consistency_score"] > 0
       /\ fe.features["overall_engagement_score"]
            = (  4 * fe.features["completion_rate_30d"]
               + 3 * fe.features["social_support_score"]) \div 10

\* C19: in every engineer_features call that returns, no two of the groups that ran
\* (temporal, pattern, consistency, momentum, social, correlation, derived) emit a
\* key of the same name, so the vector holds every emitted key once. (The groups
\* are those of the numeric library builds under which none of them raises.)
C19_GroupKeysDisjoint ==
    (fe.op = "engineer_features" /\ ~fe.err)
    => \A lapack \in LapackBuilds :
         LET g == FeatureGroups(fe.habits[1], fe.user_data, fe.include_correlations,
                                fe.clks[1], lapack)
         IN  (\A i \in 1..Len(g) : ~g[i].err)
             => /\ \A i, j \in 1..Len(g) :
                     i # j => DOMAIN g[i].d \cap DOMAIN g[j].d = {}
                /\ UNION {DOMAIN g[i].d : i \in 1..Len(g)} = DOMAIN fe.features

\* a call in which all seven groups ran
C19_Witness ==
    /\ fe.op = "engineer_features"
    /\ ~fe.err
    /\ fe.include_correlations
    /\ Truthy(fe.user_data)
    /\ Len(DictGet(fe.habits[1], "check_ins", <<>>)) >= 3
    /\ Cardinality(DOMAIN fe.features) = 35

\* the timestamps of a list of a habit record that cannot be parsed
MalformedIn(habit, key) ==
    {i \in 1..Len(DictGet(habit, key, <<>>)) : ~DictGet(habit, key, <<>>)[i].valid}

\* a habit record with a malformed timestamp somewhere
HasMalformedTimestamp(habit) ==
    \/ ~habit["created_at"].valid
    \/ MalformedIn(habit, "check_ins") # {}
    \/ MalformedIn(habit, "partner_check_ins") # {}
    \/ MalformedIn(habit, "partner_messages") # {}

\* C20: a malformed timestamp anywhere in a habit record (creation time, a check-in,
\* a partner check-in, a partner message) makes engineer_features raise, and makes
\* prepare_training_dataset raise, returning no frame, for a history holding it.
C20_MalformedTimestampFails ==
    /\ (fe.op = "engineer_features" /\ HasMalformedTimestamp(fe.habits[1]))
       => fe.err
    /\ (/\ fe.op = "prepare_training_dataset"
        /\ \E i \in 1..Len(fe.habits) : HasMalformedTimestamp(fe.habits[i]))
       => fe.err /\ fe.rows = <<>>

\* the same for the habit's own check-ins
C20_MalformedCheckInFails ==
    /\ (fe.op = "engineer_features" /\ MalformedIn(fe.habits[1], "check_ins") # {})
       => fe.err
    /\ (/\ fe.op = "prepare_training_dataset"
        /\ \E i \in 1..Len(fe.habits) : MalformedIn(fe.habits[i], "check_ins") # {})
       => fe.err /\ fe.rows = <<>>

---------------------------------------------------------------------------
(* Properties of the single features *)

\* the clock stood still during the last engineer_features call
ClockStoodStill ==
    \A i \in 1..5 : fe.clks[1][i] = fe.clks[1][1]

\* C21: check_ins_per_week is the number of check-ins divided by the age in weeks,
\* the age being at least one day: 7n/d for a habit created d >= 1 days ago with n
\* check-ins, and 7n for d = 0.
C21_CheckInsPerWeekFlooredAtOneDay ==
    (fe.op = "engineer_features" /\ ~fe.err /\ ClockStoodStill)
    => LET d == fe.features["days_since_creation"] \div 1000
           n == fe.features["total_check_ins"] \div 1000
       IN  fe.features["check_ins_per_week"]
             = IF d >= 1 THEN (7000 * n) \div d ELSE 7000 * n

\* what the vectors hold: the age is at least one week
C21_CheckInsPerWeekFlooredAtOneWeek ==
    (fe.op = "engineer_features" /\ ~fe.err /\ ClockStoodStill)
    => LET d == fe.features["days_since_creation"] \div 1000
           n == fe.features["total_check_ins"] \div 1000
       IN  fe.features["check_ins_per_week"]
             = IF d >= 7 THEN (7000 * n) \div d ELSE 1000 * n

\* the number of the conditions of `conds` that hold
Flags(conds) == Cardinality({i \in 1..Len(conds) : conds[i]})

\* C22: risk_flag_count is the number of these conditions that hold for the vector:
\* check_in_time_variance above 4 hours, momentum_score below 0, completion_rate_7d
\* below 0.5; the momentum is a whole number of sevenths.
C22_RiskFlagCount ==
    (fe.op = "engineer_features" /\ ~fe.err)
    => /\ fe.features["risk_flag_count"]
            = 1000 * Flags(<< fe.features["check_in_time_variance"] > 4000,
                              fe.features["momentum_score"] < 0,
                              fe.features["completion_rate_7d"] < 500 >>)
       /\ \E k \in -30..30 : fe.features["momentum_score"] = (1000 * k) \div 7

\* a habit losing momentum, checked in at scattered hours, with one check-in this
\* week: all three flags
C22_Witness ==
    /\ fe.op = "engineer_features"
    /\ ~fe.err
    /\ fe.features["momentum_score"] < 0
    /\ fe.features["check_in_time_variance"] > 4000
    /\ fe.features["risk_flag_count"] = 3000

\* the interactions of the last habit engineered, and k: how many of them are at
\* most 7 whole days old at the reading of the social group
PartnerInteractions ==
    DictGet(fe.habits[1], "partner_check_ins", <<>>)
        \o DictGet(fe.habits[1], "partner_messages", <<>>)

RecentInteractions ==
    Cardinality({i \in 1..Len(PartnerInteractions) :
                   /\ PartnerInteractions[i].valid
                   /\ Days(fe.clks[1][5] - PartnerInteractions[i].t) <= 7})

HasPartner == DictGet(fe.habits[1], "accountability_partner_id", None) # None

SocialMean ==
    (fe.features["has_accountability_partner"]
       + fe.features["partner_engagement_score"]
       + fe.features["reminder_response_rate"]) \div 3

C23_WitnessCapped ==
    /\ fe.op = "engineer_features"
    /\ ~fe.err
    /\ HasPartner
    /\ RecentInteractions = 8
    /\ fe.features["partner_engagement_score"] = 1000

CheckIns == DictGet(fe.habits[1], "check_ins", <<>>)

\* the check-ins of the last habit engineered are in time order, each exactly
\* target_frequency days after the one before
OnTargetSpacing ==
    /\ Len(CheckIns) >= 2
    /\ "target_frequency" \in DOMAIN fe.habits[1]
    /\ \A i \in 1..(Len(CheckIns) - 1) :
          /\ CheckIns[i].valid /\ CheckIns[i + 1].valid
          /\ CheckIns[i + 1].t - CheckIns[i].t
               = fe.habits[1]["target_frequency"] * 24 * 60

\* C24: a record whose consecutive check-ins are exactly target_frequency whole
\* days apart has regularity_score 1.0, and every record with at least 2 check-ins
\* has a regularity_score in [0, 1].
C24_RegularityOnTargetIsOne ==
    (fe.op = "engineer_features" /\ ~fe.err)
    => /\ OnTargetSpacing => fe.features["regularity_score"] = 1000
       /\ Len(CheckIns) >= 2
            => /\ fe.features["regularity_score"] >= 0
               /\ fe.features["regularity_score"] <= 1000

\* a record checked in every second day, as targeted
C24_Witness ==
    /\ fe.op = "engineer_features"
    /\ ~fe.err
    /\ OnTargetSpacing
    /\ fe.habits[1]["target_frequency"] = 2
    /\ Len(CheckIns) = 4
    /\ fe.features["inter_checkin_mean_days"] = 2000
    /\ fe.features["regularity_score"] = 1000

\* a record off its target: the score is strictly inside the interval
C24_WitnessOffTarget ==
    /\ fe.op = "engineer_features"
    /\ ~fe.err
    /\ Len(CheckIns) >= 2
    /\ fe.features["regularity_score"] > 0
    /\ fe.features["regularity_score"] < 1000

\* the documented defaults of the pattern group
PatternDefaults ==
    [weekday_completion_rate |-> 0, weekend_completion_rate |-> 0,
     morning_check_in_rate |-> 0, evening_check_in_rate |-> 0,
     most_common_hour |-> 12000, hour_entropy |-> 0]

\* C25: for a record without check-ins (the list absent or empty) the pattern group
\* raises nothing and returns its six defaults, which the vector holds when the
\* other groups raise nothing either.
C25_PatternDefaults ==
    (fe.op = "engineer_features" /\ Len(CheckIns) = 0)
    => /\ _pattern_features(fe.habits[1]) = Features(PatternDefaults)
       /\ ~fe.err
            => \A k \in DOMAIN PatternDefaults : fe.features[k] = PatternDefaults[k]

\* a record without the check_ins key
C25_Witness ==
    /\ fe.op = "engineer_features"
    /\ "check_ins" \notin DOMAIN fe.habits[1]
    /\ ~fe.err
    /\ fe.features["most_common_hour"] = 12000

\* the documented defaults of the consistency group
ConsistencyDefaults ==
    [check_in_consistency_score |-> 500, avg_check_in_hour |-> 12000,
     check_in_time_variance |-> 0, inter_checkin_mean_days |-> 0,
     inter_checkin_std_days |-> 0, regularity_score |-> 500]

\* C26: for a record with fewer than 2 check-ins the consistency group returns its
\* six defaults, whatever the target frequency and the time of the one check-in; the
\* vector holds them when no group raises.
C26_ConsistencyDefaults ==
    (fe.op = "engineer_features" /\ Len(CheckIns) < 2)
    => /\ _consistency_features(fe.habits[1]) = Features(ConsistencyDefaults)
       /\ ~fe.err
            => \A k \in DOMAIN ConsistencyDefaults :
                  fe.features[k] = ConsistencyDefaults[k]

\* a weekly habit whose one check-in was at 23:45
C26_Witness ==
    /\ fe.op = "engineer_features"
    /\ ~fe.err
    /\ Len(CheckIns) = 1
    /\ HourOf(CheckIns[1]) = 23
    /\ fe.habits[1]["target_frequency"] = 7
    /\ fe.features["avg_check_in_hour"] = 12000
    /\ fe.features["regularity_score"] = 500

---------------------------------------------------------------------------
(* Properties of failed training and of the trainer's save *)

\* C27: a train call that raises, at whatever step, leaves the predictor as it was:
\* never a newly fitted model next to the metadata of the run before.
C27_FailedTrainLeavesPredictorUnchanged ==
    [][ (\E d \in Datasets \cup DegenerateDatasets, pct \in AnyTestSizes :
            train(d, pct) /\ last'.outcome # "ok")
        => predictor' = predictor ]_vars

\* the same for the steps before the fit: column selection and the two splits
C27_TrainFailingBeforeFitLeavesPredictorUnchanged ==
    [][ (\E d \in Datasets \cup DegenerateDatasets, pct \in AnyTestSizes :
            /\ train(d, pct)
            /\ last'.outcome # "ok"
            /\ \/ ~(Range(predictor.feature_names) \subseteq d.columns)
               \/ \A s1 \in train_test_split(d.pos, d.neg, pct) :
                     \/ ~s1.ok
                     \/ \A s2 \in train_test_split(s1.train[1], s1.train[2],
                                                    ValidationSplit) : ~s2.ok)
        => predictor' = predictor ]_vars

\* C28: ModelTrainer.save_model called right after a train_from_data call that
\* raised writes no artifact and raises 'No model to save'.
C28_SaveAfterFailedTrainRefuses ==
    [][ (/\ last.op = "train_from_data"
         /\ last.outcome # "ok"
         /\ ModelTrainer_save_model)
        => /\ xgb_file' = xgb_file
           /\ metadata_file' = metadata_file
           /\ last'.outcome = "ValueError: No model to save" ]_vars

\* the part of C28 about the artifacts alone: ModelTrainer.save_model called right
\* after a train_from_data call that raised writes no artifact
C28_SaveAfterFailedTrainWritesNothing ==
    [][ (/\ last.op = "train_from_data"
         /\ last.outcome # "ok"
         /\ ModelTrainer_save_model)
        => /\ xgb_file' = xgb_file
           /\ metadata_file' = metadata_file ]_vars

\* what holds: a trainer that never constructed a predictor refuses to save
C28_SaveWithoutPredictorRefuses ==
    [][ (~predictor.alive /\ ModelTrainer_save_model)
        => /\ xgb_file' = xgb_file
           /\ metadata_file' = metadata_file
           /\ last'.outcome = "ValueError: No model to save" ]_vars

---------------------------------------------------------------------------
(* Properties of the correlations and of the clock *)

\* the logs of the user context of the last call
LogsOf(key) == DictGet(fe.user_data.d, key, <<>>)

\* C29: _calculate_temporal_correlation returns 0 whenever it returns, for the mood
\* logs and for the sleep logs, and every vector that has mood_correlation and
\* sleep_quality_correlation has them at 0.
C29_CorrelationsAreZero ==
    (fe.op = "engineer_features")
    => /\ \A key \in {"mood_logs", "sleep_logs"} :
            LET r == _calculate_temporal_correlation(CheckIns, LogsOf(key))
            IN  ~r.err => r.value = 0
       /\ \A k \in CorrelationKeys :
            (~fe.err /\ k \in DOMAIN fe.features) => fe.features[k] = 0

\* three check-in dates that all have a mood log, the logs differing in score
C29_Witness ==
    /\ fe.op = "engineer_features"
    /\ ~fe.err
    /\ fe.include_correlations
    /\ Cardinality({DateOf(CheckIns[i]) : i \in 1..Len(CheckIns)}
                     \cap {DateOf(LogsOf("mood_logs")[i].timestamp) :
                             i \in 1..Len(LogsOf("mood_logs"))}) >= 3
    /\ Cardinality({LogsOf("mood_logs")[i].score :
                       i \in 1..Len(LogsOf("mood_logs"))}) >= 2
    /\ fe.features["mood_correlation"] = 0

\* C30: every time-relative feature of one engineer_features call is computed
\* against one reference instant, also when the clock advances during the call:
\* habit_age_weeks is days_since_creation / 7 in every vector.
C30_SingleReferenceInstant ==
    (fe.op = "engineer_features" /\ ~fe.err)
    => fe.features["habit_age_weeks"] = fe.features["days_since_creation"] \div 7

\* what the vectors hold: the two agree when no reading of the call differs from
\* the first
C30_SingleInstantWhenClockStandsStill ==
    (fe.op = "engineer_features" /\ ~fe.err /\ ClockStoodStill)
    => fe.features["habit_age_weeks"] = fe.features["days_since_creation"] \div 7

====
